---- MODULE Spec2Model ----
(***************************************************************************)
(* A model of the glyph-geometry core of xheight: the stroke smoother, the *)
(* glyph normalizer and the font assembler (generateFont and the family    *)
(* export), as they are written in src/types.ts and src/utils/svgHelpers.ts.*)
(*                                                                         *)
(* JavaScript numbers are modelled as exact rationals <<n, d>> (d > 0, in  *)
(* lowest terms); a division by zero gives <<1, 0>>, <<-1, 0>> or <<0, 0>> *)
(* for Infinity, -Infinity and NaN. Floating-point rounding error is not   *)
(* modelled.                                                               *)
(***************************************************************************)
EXTENDS Integers, Sequences, FiniteSets, TLC

VARIABLES
    fontMap,    \* the FontMap handed to generateFont: CharData records in Object.keys order
    out,        \* what the last generateFont / generateFontFamilyZip call returned or threw
    call,       \* the arguments of that call
    strokes,    \* argument of smoothStrokes / normalizeStrokes
    char,       \* argument of normalizeStrokes
    avgScale,   \* argument of normalizeStrokes
    smoothed,   \* result of smoothStrokes
    norm,       \* result of normalizeStrokes
    outlinePoints,  \* result of the outline builder
    fontName,   \* the font name typed into the name field, one character per element
    files,      \* the files handed to the browser as downloads by the last export
    strokeShapes,   \* the stroke shapes handed to the union of one glyph
    united,     \* result of recursiveUnite
    unifiedPath,    \* result of the accumulating union
    isDrawing,  \* DrawingPad: a stroke is being drawn
    currentStroke,  \* DrawingPad: the points of the stroke being drawn
    pc          \* which call has completed

vars == <<fontMap, out, call, strokes, char, avgScale, smoothed, norm, outlinePoints,
          fontName, files, strokeShapes, united, unifiedPath, isDrawing, currentStroke, pc>>

-----------------------------------------------------------------------------
(* Bounds of the model *)

MaxY == 1           \* canvas y coordinates of drawn points are 0 .. MaxY
MaxPts == 3         \* total number of points of a stroke list handed to normalizeStrokes
MaxStrokes == 2     \* number of strokes of such a list
MaxSmoothPts == 4   \* number of points of the stroke handed to smoothStrokes alone
MaxNameLen == 3     \* number of characters of the font name
MaxShapes == 3      \* number of stroke shapes of one glyph
MaxPadPts == 2      \* number of points of one stroke drawn on the pad
MaxGlyphs == 2      \* number of records in the font map

\* canvas x coordinates of drawn points
XCoords == {0, 1}

-----------------------------------------------------------------------------
(* Exact rational arithmetic for JavaScript numbers *)

Abs(n) == IF n < 0 THEN -n ELSE n

RECURSIVE GCD(_, _)
GCD(a, b) == IF b = 0 THEN a ELSE GCD(b, a % b)

\* the rational n/d in lowest terms with a positive denominator; a division by zero
\* gives what IEEE 754 gives: <<1, 0>> is Infinity, <<-1, 0>> -Infinity, <<0, 0>> NaN
Rat(n, d) ==
    IF d = 0 THEN <<IF n > 0 THEN 1 ELSE IF n < 0 THEN -1 ELSE 0, 0>>
    ELSE LET g == GCD(Abs(n), Abs(d))
             s == IF d < 0 THEN -1 ELSE 1
         IN  <<(s * n) \div g, (s * d) \div g>>

R(n) == <<n, 1>>

RAdd(a, b) == Rat(a[1] * b[2] + b[1] * a[2], a[2] * b[2])
RSub(a, b) == Rat(a[1] * b[2] - b[1] * a[2], a[2] * b[2])
RMul(a, b) == Rat(a[1] * b[1], a[2] * b[2])
RDiv(a, b) == Rat(a[1] * b[2], a[2] * b[1])
RLt(a, b) == a[1] * b[2] < b[1] * a[2]
RLe(a, b) == a[1] * b[2] <= b[1] * a[2]
\* Math.max, Math.min
RMax(a, b) == IF RLt(a, b) THEN b ELSE a
RMin(a, b) == IF RLt(b, a) THEN b ELSE a
\* Math.round: the nearest integer, halves rounded up
RRound(a) == (2 * a[1] + a[2]) \div (2 * a[2])

-----------------------------------------------------------------------------
(* src/types.ts: Point, Stroke *)

Point(x, y) == [x |-> x, y |-> y]
Stroke(pts) == [points |-> pts]

PointSet == {Point(R(x), R(y)) : x \in XCoords, y \in 0 .. MaxY}

\* every sequence over S of length exactly k / at most n
SeqsOfLen(S, k) == [1 .. k -> S]
SeqsUpTo(S, n) == UNION {SeqsOfLen(S, k) : k \in 0 .. n}

\* every list of at most ns strokes of at least one point each, np points in all at most
RECURSIVE DrawnLists(_, _)
DrawnLists(ns, np) ==
    IF ns = 0 \/ np = 0 THEN {<<>>}
    ELSE {<<>>} \cup
         UNION {{<<Stroke(s)>> \o rest :
                    s \in SeqsOfLen(PointSet, j), rest \in DrawnLists(ns - 1, np - j)} :
                j \in 1 .. np}

\* the lists of strokes that hold no point at all
EmptyStrokeLists(ns) == {[k \in 1 .. m |-> Stroke(<<>>)] : m \in 1 .. ns}

StrokeLists(ns, np) == DrawnLists(ns, np) \cup EmptyStrokeLists(ns)

\* every point of every stroke, in order (s.points.forEach inside strokes.forEach)
RECURSIVE AllPoints(_)
AllPoints(ss) ==
    IF ss = <<>> THEN <<>> ELSE Head(ss).points \o AllPoints(Tail(ss))

-----------------------------------------------------------------------------
(* smoothStrokes: src/types.ts 40-62, the same text as src/utils/svgHelpers.ts 7-29 *)

Three == R(3)

\* the mutant: averages the already smoothed predecessor newPoints[i-1]
movingAverageInPlace(points, newPoints, i) ==
    LET p0 == newPoints[Len(newPoints)]
        p1 == points[i]
        p2 == points[i + 1]
    IN  Point(RDiv(RAdd(RAdd(p0.x, p1.x), p2.x), Three),
              RDiv(RAdd(RAdd(p0.y, p1.y), p2.y), Three))

\* the loop body: the point pushed for index i (1-based) while newPoints holds the
\* points pushed so far
movingAverage(points, newPoints, i) ==
    LET p0 == points[i - 1]
        p1 == points[i]
        p2 == points[i + 1]
    IN  Point(RDiv(RAdd(RAdd(p0.x, p1.x), p2.x), Three),
              RDiv(RAdd(RAdd(p0.y, p1.y), p2.y), Three))

\* for (let i = 1; i < points.length - 1; i++) newPoints.push(...)   (i is 1-based here)
RECURSIVE smoothLoop(_, _, _)
smoothLoop(points, newPoints, i) ==
    IF i < Len(points)
    THEN smoothLoop(points, Append(newPoints, movingAverage(points, newPoints, i)), i + 1)
    ELSE newPoints

smoothStroke(stroke) ==
    LET points == stroke.points
    IN  IF Len(points) < 3 THEN stroke
        ELSE [stroke EXCEPT !.points =
                 Append(smoothLoop(points, <<points[1]>>, 2), points[Len(points)])]

smoothStrokes(ss) == [k \in 1 .. Len(ss) |-> smoothStroke(ss[k])]

\* smoothStrokes of src/utils/svgHelpers.ts 309-345: the same moving average, then a
\* distance filter that keeps a point only if it is more than 2 away from the last
\* point kept, or is the last point of the stroke
distSq(a, b) ==
    RAdd(RMul(RSub(a.x, b.x), RSub(a.x, b.x)), RMul(RSub(a.y, b.y), RSub(a.y, b.y)))

keepPoint(simplifiedPoints, current, isLast) ==
    IF RLt(R(4), distSq(current, simplifiedPoints[Len(simplifiedPoints)])) \/ isLast
    THEN Append(simplifiedPoints, current)
    ELSE simplifiedPoints

RECURSIVE simplifyLoop(_, _, _)
simplifyLoop(smoothedPoints, simplifiedPoints, i) ==
    IF i <= Len(smoothedPoints)
    THEN simplifyLoop(smoothedPoints,
                      keepPoint(simplifiedPoints, smoothedPoints[i],
                                i = Len(smoothedPoints)),
                      i + 1)
    ELSE simplifiedPoints

simplifyStroke(stroke, smoothedStroke) ==
    IF Len(stroke.points) < 3 THEN stroke
    ELSE [stroke EXCEPT !.points =
             simplifyLoop(smoothedStroke.points, <<smoothedStroke.points[1]>>, 2)]

smoothStrokesSvg(ss) == [k \in 1 .. Len(ss) |-> simplifyStroke(ss[k], smoothStroke(ss[k]))]

-----------------------------------------------------------------------------
(* Character sets: src/types.ts 25-34 and 142-145 *)

UpperCase == <<"A", "B", "C", "D", "E", "F", "G", "H", "I", "J", "K", "L", "M",
               "N", "O", "P", "Q", "R", "S", "T", "U", "V", "W", "X", "Y", "Z">>
LowerCase == <<"a", "b", "c", "d", "e", "f", "g", "h", "i", "j", "k", "l", "m",
               "n", "o", "p", "q", "r", "s", "t", "u", "v", "w", "x", "y", "z">>
Digits == <<"0", "1", "2", "3", "4", "5", "6", "7", "8", "9">>

CHAR_SET == UpperCase \o LowerCase \o Digits \o <<".", "!", "?", ",">>

Range(f) == {f[i] : i \in DOMAIN f}

CAPS_CHARS == Range(UpperCase) \cup Range(Digits) \cup {"!", "?"}
SMALL_CHARS == {"a", "c", "e", "m", "n", "o", "r", "s", "u", "v", "w", "x", "z"}
TALL_CHARS == {"b", "d", "f", "h", "i", "k", "l", "t"}
DESC_CHARS == {"g", "j", "p", "q", "y"}

\* Metric constants for the 1000-unit em square: src/types.ts 148-153
EM_HEIGHT == 1000
BASELINE == 800
CAP_HEIGHT == 750
X_HEIGHT == 550
ASCENDER_HEIGHT == 800
\* normalizeStrokes' side bearings: src/types.ts 267, 278
LSB == 50
RSB == 50

-----------------------------------------------------------------------------
(* normalizeStrokes: src/types.ts 195-286 *)

\* the bounding box the forEach loops leave behind for a non-empty point list
RECURSIVE FoldMin(_, _)
FoldMin(vals, acc) ==
    IF vals = <<>> THEN acc ELSE FoldMin(Tail(vals), RMin(acc, Head(vals)))
RECURSIVE FoldMax(_, _)
FoldMax(vals, acc) ==
    IF vals = <<>> THEN acc ELSE FoldMax(Tail(vals), RMax(acc, Head(vals)))

Xs(pts) == [i \in 1 .. Len(pts) |-> pts[i].x]
Ys(pts) == [i \in 1 .. Len(pts) |-> pts[i].y]
MinOf(vals) == FoldMin(Tail(vals), Head(vals))
MaxOf(vals) == FoldMax(Tail(vals), Head(vals))

\* the mutant: the corpus average scale for every category
normScaleAvg(c, rawH, avg) == avg

\* the mutant: punctuation scaled to the cap height like a capital
normScaleCaps(c, rawH, avg) == RDiv(R(CAP_HEIGHT), rawH)

\* step 2 of normalizeStrokes, the scale of each branch
normScale(c, rawH, avg) ==
    IF c \in CAPS_CHARS THEN RDiv(R(CAP_HEIGHT), rawH)
    ELSE IF c \in SMALL_CHARS THEN RDiv(R(X_HEIGHT), rawH)
    ELSE IF c \in TALL_CHARS THEN RDiv(R(ASCENDER_HEIGHT), rawH)
    ELSE IF c \in DESC_CHARS THEN RDiv(R(CAP_HEIGHT), rawH)
    ELSE avg

\* the mutant: every category sits with its bottom on the baseline
normTargetYBottom(c, rawH, scale) == RSub(R(BASELINE), RMul(rawH, scale))

\* step 2 of normalizeStrokes, the targetY of each branch
normTargetY(c, rawH, scale) ==
    IF c \in CAPS_CHARS \cup SMALL_CHARS \cup TALL_CHARS
    THEN RSub(R(BASELINE), RMul(rawH, scale))
    ELSE IF c \in DESC_CHARS THEN R(BASELINE - X_HEIGHT)
    ELSE IF c = "," THEN R(BASELINE)
    ELSE RSub(R(BASELINE), RMul(rawH, scale))

\* the mutant: the left edge of the bounding box is taken off unscaled
offsetXUnscaled(minX, scale) == RSub(R(LSB), minX)

\* const offsetX = LSB - (minX * scale)   (types.ts 268)
offsetX(minX, scale) == RSub(R(LSB), RMul(minX, scale))

\* normalizeStrokes from the bounding box of the smoothed strokes sm on
normalizeBox(sm, minX, maxX, minY, rawH, c, scale) ==
    [strokes |->
        [k \in 1 .. Len(sm) |->
            [points |->
                [i \in 1 .. Len(sm[k].points) |->
                    Point(RAdd(RMul(sm[k].points[i].x, scale), offsetX(minX, scale)),
                          RAdd(RMul(sm[k].points[i].y, scale),
                               RSub(normTargetY(c, rawH, scale), RMul(minY, scale))))]]],
     advanceWidth |-> RAdd(RAdd(RMul(RSub(maxX, minX), scale), R(LSB)), R(RSB)),
     height |-> R(EM_HEIGHT)]

\* rawH = Math.max(maxY - minY, 1) and the scale of the character's branch
normalizeScaled(sm, minX, maxX, minY, rawH, c, avg) ==
    normalizeBox(sm, minX, maxX, minY, rawH, c, normScale(c, rawH, avg))

\* the mutant: the height of the bounding box as it is, without the floor
rawHeightUnfloored(minY, maxY) == RSub(maxY, minY)

\* const rawH = Math.max(maxY - minY, 1)   (types.ts 211)
rawHeight(minY, maxY) == RMax(RSub(maxY, minY), R(1))

\* the mutant: without the early return the empty box still gets its two bearings
normalizePointsUnguarded(sm, pts, c, avg) ==
    IF pts = <<>>
    THEN [strokes |-> sm, advanceWidth |-> R(LSB + RSB), height |-> R(EM_HEIGHT)]
    ELSE normalizeScaled(sm, MinOf(Xs(pts)), MaxOf(Xs(pts)), MinOf(Ys(pts)),
                         rawHeight(MinOf(Ys(pts)), MaxOf(Ys(pts))), c, avg)

\* if (minX === Infinity) return { strokes: smoothed, advanceWidth: 0, ... }, else
\* the bounding box of the points (types.ts 200-212)
normalizePoints(sm, pts, c, avg) ==
    IF pts = <<>>
    THEN [strokes |-> sm, advanceWidth |-> R(0), height |-> R(EM_HEIGHT)]
    ELSE normalizeScaled(sm, MinOf(Xs(pts)), MaxOf(Xs(pts)), MinOf(Ys(pts)),
                         rawHeight(MinOf(Ys(pts)), MaxOf(Ys(pts))), c, avg)

\* normalizeStrokes after const smoothed = smoothStrokes(strokes)
normalizeSmoothed(sm, c, avg) == normalizePoints(sm, AllPoints(sm), c, avg)

normalizeStrokes(ss, c, avg) ==
    IF Len(ss) = 0
    THEN [strokes |-> <<>>, advanceWidth |-> R(0), height |-> R(EM_HEIGHT)]
    ELSE normalizeSmoothed(smoothStrokes(ss), c, avg)

\* normalizeStrokes of src/utils/svgHelpers.ts 465-526: the same text, calling the
\* smoothStrokes of that file
normalizeStrokesSvg(ss, c, avg) ==
    IF Len(ss) = 0
    THEN [strokes |-> <<>>, advanceWidth |-> R(0), height |-> R(EM_HEIGHT)]
    ELSE normalizeSmoothed(smoothStrokesSvg(ss), c, avg)

-----------------------------------------------------------------------------
(* calculateAvgScale: src/types.ts 161-193 *)

\* fontMap[c]: the record stored under key c, or NoData when the key is absent
NoData == [char |-> "", strokes |-> <<>>, canvasWidth |-> 0, canvasHeight |-> 0]
HasKey(fm, c) == \E i \in 1 .. Len(fm) : fm[i].char = c
Lookup(fm, c) ==
    IF HasKey(fm, c) THEN fm[CHOOSE i \in 1 .. Len(fm) : fm[i].char = c] ELSE NoData

\* the characters that add a sample: a record with strokes that hold a point
Sampled(fm) ==
    {c \in CAPS_CHARS \cup SMALL_CHARS \cup TALL_CHARS \cup DESC_CHARS :
        /\ HasKey(fm, c)
        /\ Len(Lookup(fm, c).strokes) # 0
        /\ AllPoints(Lookup(fm, c).strokes) # <<>>}

\* the mutant: the height is measured on the smoothed strokes, as normalizeStrokes does
SampleScaleSmoothed(fm, c) ==
    LET ys == Ys(AllPoints(smoothStrokes(Lookup(fm, c).strokes)))
        h == RMax(RSub(MaxOf(ys), MinOf(ys)), R(1))
        target == IF c \in CAPS_CHARS THEN CAP_HEIGHT
                  ELSE IF c \in SMALL_CHARS THEN X_HEIGHT
                  ELSE IF c \in TALL_CHARS THEN ASCENDER_HEIGHT
                  ELSE CAP_HEIGHT
    IN  RDiv(R(target), h)

\* target / h of one sampled character, on its RAW points
SampleScale(fm, c) ==
    LET ys == Ys(AllPoints(Lookup(fm, c).strokes))
        h == RMax(RSub(MaxOf(ys), MinOf(ys)), R(1))
        target == IF c \in CAPS_CHARS THEN CAP_HEIGHT
                  ELSE IF c \in SMALL_CHARS THEN X_HEIGHT
                  ELSE IF c \in TALL_CHARS THEN ASCENDER_HEIGHT
                  ELSE CAP_HEIGHT
    IN  RDiv(R(target), h)

RECURSIVE SumScales(_, _)
SumScales(fm, cs) ==
    IF cs = {} THEN R(0)
    ELSE LET c == CHOOSE x \in cs : TRUE
         IN  RAdd(SampleScale(fm, c), SumScales(fm, cs \ {c}))

calculateAvgScale(fm) ==
    LET cs == Sampled(fm)
    IN  IF Cardinality(cs) > 0
        THEN RDiv(SumScales(fm, cs), R(Cardinality(cs)))
        ELSE Rat(EM_HEIGHT, 300)

-----------------------------------------------------------------------------
(* Glyphs and fonts handed to opentype.js *)

IndexOf(seq, c) == CHOOSE i \in DOMAIN seq : seq[i] = c

\* char.charCodeAt(0) / char.codePointAt(0)
CharCode(c) ==
    IF c \in Range(UpperCase) THEN 64 + IndexOf(UpperCase, c)
    ELSE IF c \in Range(LowerCase) THEN 96 + IndexOf(LowerCase, c)
    ELSE IF c \in Range(Digits) THEN 47 + IndexOf(Digits, c)
    ELSE CASE c = "." -> 46 [] c = "!" -> 33 [] c = "?" -> 63 [] c = "," -> 44
           [] c = "#" -> 35

Glyph(name, unicode, advanceWidth, path) ==
    [name |-> name, unicode |-> unicode, advanceWidth |-> advanceWidth, path |-> path]

Font(styleName, glyphs) == [styleName |-> styleName, glyphs |-> glyphs]

\* options: { thickness = 50, slant = 0, styleName = 'Regular' }
Options(thickness, slant, styleName) ==
    [thickness |-> thickness, slant |-> slant, styleName |-> styleName]

\* an outline step of one glyph that throws in the geometry library, or none
NoFail == [char |-> "", step |-> "none"]

Threw == [status |-> "threw", fonts |-> <<>>]
Returned(fonts) == [status |-> "ok", fonts |-> fonts]

-----------------------------------------------------------------------------
(* getStrokeOutlinePoints and generateFont of src/types.ts 295-516 *)

\* transform(pt, 0, 0) with scale = 1, dx = dy = 0: flip y at the ascender, then slant
transform(pt, ascender, slant) ==
    LET y_otf == RSub(R(ascender), pt.y)
    IN  Point(RAdd(pt.x, RMul(y_otf, slant)), y_otf)

\* the mutant: only a stroke of one point is a dot
IsDotSinglePoint(points) == Len(points) = 1

IsDot(points) ==
    \/ Len(points) = 1
    \/ /\ Len(points) = 2
       \* Math.hypot(dx, dy) < 2
       /\ LET dx == RSub(points[1].x, points[2].x)
              dy == RSub(points[1].y, points[2].y)
          IN  RLt(RAdd(RMul(dx, dx), RMul(dy, dy)), R(4))

\* ring.length: no point gives [], a dot 12 points, a stroke of n points the n left
\* and n right offsets and two caps of 7 arc points each
ringLength(points) ==
    IF Len(points) = 0 THEN 0
    ELSE IF IsDot(points) THEN 12
    ELSE 2 * Len(points) + 14

\* the ring of one stroke: its point count, the offset distance (dot radius
\* thickness * 0.6 or half width thickness / 2) and the transformed centerline the
\* offsets are taken around
getStrokeOutlinePoints(stroke, ascender, thickness, slant) ==
    LET points == stroke.points
    IN  [n |-> ringLength(points),
         r |-> IF Len(points) = 0 THEN R(0)
               ELSE IF IsDot(points) THEN RMul(R(thickness), Rat(6, 10))
               ELSE Rat(thickness, 2),
         center |-> IF Len(points) # 0 /\ IsDot(points)
                    THEN <<transform(points[1], ascender, slant)>>
                    ELSE [i \in 1 .. Len(points) |-> transform(points[i], ascender, slant)]]

\* the polygons pushed for one glyph: the rings with more than 2 points
polygonsOf(nstrokes, thickness, slant) ==
    SelectSeq([k \in 1 .. Len(nstrokes) |->
                  getStrokeOutlinePoints(nstrokes[k], 800, thickness, slant)],
              LAMBDA ring : ring.n > 2)

\* the mutant: the advance grows with the stroke thickness
advanceWidthTypesThick(advanceWidth, letterSpacing, thickness, slant) ==
    RAdd(RAdd(advanceWidth, R(letterSpacing)), R(thickness))

\* advanceWidth: normalized.advanceWidth + letterSpacing   (types.ts 501)
advanceWidthTypes(advanceWidth, letterSpacing, thickness, slant) ==
    RAdd(advanceWidth, R(letterSpacing))

\* a closed polygon given by its corners: no offset around them
Box(x0, y0, x1, y1) ==
    [n |-> 4, r |-> R(0),
     center |-> <<Point(R(x0), R(y0)), Point(R(x0), R(y1)),
                  Point(R(x1), R(y1)), Point(R(x1), R(y0))>>]

\* the .notdef glyph: src/types.ts 441-453
notdefTypes == Glyph(".notdef", 0, R(500), <<Box(100, 0, 400, 700)>>)

Glyphs(seq) == [threw |-> FALSE, glyphs |-> seq]
Thrown == [threw |-> TRUE, glyphs |-> <<>>]

\* the end of one forEach callback (types.ts 480-512): polygonClipping.union is
\* called outside any try, so its throw ends generateFont; otherwise the glyph is
\* pushed before those of the later keys (rest)
pushGlyphTypes(c, advanceWidth, polygons, letterSpacing, options, fail, rest) ==
    IF Len(polygons) > 0 /\ fail.char = c /\ fail.step = "union"
    THEN Thrown
    ELSE IF rest.threw THEN Thrown
    ELSE Glyphs(<<Glyph(c, CharCode(c),
                        advanceWidthTypes(advanceWidth, letterSpacing,
                                          options.thickness, options.slant),
                        polygons)>> \o rest.glyphs)

\* the forEach callback from the normalized strokes on (types.ts 466-512)
glyphOfNormalizedTypes(c, normalized, letterSpacing, options, fail, rest) ==
    pushGlyphTypes(c, normalized.advanceWidth,
                   polygonsOf(normalized.strokes, options.thickness, options.slant),
                   letterSpacing, options, fail, rest)

\* the forEach callback for one record: a record without strokes is skipped
forEachKeyTypes(data, avg, letterSpacing, options, fail, rest) ==
    IF Len(data.strokes) = 0 THEN rest
    ELSE glyphOfNormalizedTypes(data.char, normalizeStrokes(data.strokes, data.char, avg),
                                letterSpacing, options, fail, rest)

\* Object.keys(fontMap).forEach: the glyphs pushed for the records from index i on
RECURSIVE glyphLoopTypes(_, _, _, _, _, _)
glyphLoopTypes(fm, i, avg, letterSpacing, options, fail) ==
    IF i > Len(fm) THEN Glyphs(<<>>)
    ELSE forEachKeyTypes(fm[i], avg, letterSpacing, options, fail,
                         glyphLoopTypes(fm, i + 1, avg, letterSpacing, options, fail))

\* new opentype.Font({ styleName, glyphs }) with .notdef first (types.ts 441-516)
fontOfTypes(options, loop) ==
    IF loop.threw THEN Threw
    ELSE Returned(<<Font(options.styleName, <<notdefTypes>> \o loop.glyphs)>>)

generateFontTypes(fm, letterSpacing, options, fail) ==
    fontOfTypes(options,
                glyphLoopTypes(fm, 1, calculateAvgScale(fm), letterSpacing, options, fail))

-----------------------------------------------------------------------------
(* createStrokeShape and generateFont of src/utils/svgHelpers.ts 560-767 *)

\* createStrokeShape: null for a stroke without points and when path.expand throws
\* (caught, 607-610); otherwise the expanded outline of the centerline, which
\* generateFont's transform (687-691) flips and slants
createStrokeShape(stroke, thickness, slant, expandThrows) ==
    IF Len(stroke.points) = 0 \/ (Len(stroke.points) > 1 /\ expandThrows)
    THEN [n |-> 0, r |-> R(0), center |-> <<>>]
    ELSE [n |-> Len(stroke.points),
          r |-> Rat(thickness, 2),
          center |-> [i \in 1 .. Len(stroke.points) |->
                         transform(stroke.points[i], 800, slant)]]

strokeShapesOf(nstrokes, thickness, slant, expandThrows) ==
    SelectSeq([k \in 1 .. Len(nstrokes) |->
                  createStrokeShape(nstrokes[k], thickness, slant, expandThrows)],
              LAMBDA shape : shape.n > 0)

\* the mutant: the bearing grows with the slant of the style
finalAdvanceSvgSlanted(advanceWidth, letterSpacing, thickness, slant) ==
    R(RRound(RAdd(RAdd(advanceWidth, R(letterSpacing * 10)), RMul(R(800), slant))))

\* finalAdvance = Math.round(advanceWidth + (letterSpacing * 10))   (svgHelpers.ts 746)
finalAdvanceSvg(advanceWidth, letterSpacing, thickness, slant) ==
    R(RRound(RAdd(advanceWidth, R(letterSpacing * 10))))

\* the .notdef and space glyphs: src/utils/svgHelpers.ts 625-646
notdefSvg == Glyph(".notdef", 0, R(600), <<Box(200, 0, 400, 700)>>)
spaceSvg(letterSpacing) == Glyph("space", 32, R(400 + letterSpacing * 10), <<>>)

\* the end of one forEach callback (svgHelpers.ts 700-760): recursiveUnite calls
\* unite only for two shapes or more, outside any try; otherwise the glyph is pushed
\* before those of the later characters (rest)
pushGlyphSvg(c, advanceWidth, shapes, letterSpacing, options, fail, rest) ==
    IF Len(shapes) > 1 /\ fail.char = c /\ fail.step = "union"
    THEN Thrown
    ELSE IF rest.threw THEN Thrown
    ELSE Glyphs(<<Glyph(c, CharCode(c),
                        finalAdvanceSvg(advanceWidth, letterSpacing,
                                        options.thickness, options.slant),
                        shapes)>> \o rest.glyphs)

\* the forEach callback from the normalized strokes on (svgHelpers.ts 680-760)
glyphOfNormalizedSvg(c, normalized, letterSpacing, options, fail, rest) ==
    pushGlyphSvg(c, normalized.advanceWidth,
                 strokeShapesOf(normalized.strokes, options.thickness, options.slant,
                                fail.char = c /\ fail.step = "expand"),
                 letterSpacing, options, fail, rest)

\* the forEach callback for one record: a record without strokes is skipped
forEachCharSvg(data, avg, letterSpacing, options, fail, rest) ==
    IF Len(data.strokes) = 0 THEN rest
    ELSE glyphOfNormalizedSvg(data.char, normalizeStrokesSvg(data.strokes, data.char, avg),
                              letterSpacing, options, fail, rest)

\* CHAR_SET.forEach over the characters that are keys of the map
RECURSIVE glyphLoopSvg(_, _, _, _, _, _)
glyphLoopSvg(fm, chars, avg, letterSpacing, options, fail) ==
    IF chars = <<>> THEN Glyphs(<<>>)
    ELSE forEachCharSvg(Lookup(fm, Head(chars)), avg, letterSpacing, options, fail,
                        glyphLoopSvg(fm, Tail(chars), avg, letterSpacing, options, fail))

\* CHAR_SET.forEach(char => { const data = fontMap[char]; if (!data ...) return; ...}):
\* the characters of CHAR_SET that are keys of the map, in CHAR_SET order
charsWithData(fm) == SelectSeq(CHAR_SET, LAMBDA c : HasKey(fm, c))

\* new opentype.Font({ styleName, glyphs }) with .notdef and space first
fontOfSvg(options, letterSpacing, loop) ==
    IF loop.threw THEN Threw
    ELSE Returned(<<Font(options.styleName,
                         <<notdefSvg, spaceSvg(letterSpacing)>> \o loop.glyphs)>>)

generateFontSvg(fm, letterSpacing, options, fail) ==
    fontOfSvg(options, letterSpacing,
              glyphLoopSvg(fm, charsWithData(fm), calculateAvgScale(fm), letterSpacing,
                           options, fail))

-----------------------------------------------------------------------------
(* The rings of the outline builders, point by point.                            *)
(*                                                                               *)
(* A coordinate of a ring point is c + k * cos(theta) + s * sin(theta) for the   *)
(* angle theta the code takes the cosine and the sine of: it is kept as the      *)
(* form <<c, k, s>> of three exact numbers next to theta, which is               *)
(* Math.atan2(dy, dx) plus a fraction of a full turn.                            *)

Form(c, k, s) == <<c, k, s>>
FConst(c) == <<c, R(0), R(0)>>
FAdd(a, b) == <<RAdd(a[1], b[1]), RAdd(a[2], b[2]), RAdd(a[3], b[3])>>
FSub(a, b) == <<RSub(a[1], b[1]), RSub(a[2], b[2]), RSub(a[3], b[3])>>
FNeg(a) == FSub(FConst(R(0)), a)
FScale(a, q) == <<RMul(a[1], q), RMul(a[2], q), RMul(a[3], q)>>

\* r * Math.cos(theta), r * Math.sin(theta)
RCos(r) == Form(R(0), r, R(0))
RSin(r) == Form(R(0), R(0), r)

Angle(dx, dy, turn) == [dx |-> dx, dy |-> dy, turn |-> turn]
ZeroAngle == Angle(R(1), R(0), R(0))
AddTurn(angle, q) == [angle EXCEPT !.turn = RAdd(@, q)]

\* getAngle(p1, p2) = Math.atan2(p2.y - p1.y, p2.x - p1.x)
getAngle(p1, p2) == Angle(RSub(p2.x, p1.x), RSub(p2.y, p1.y), R(0))

RingPoint(x, y, theta) == [x |-> x, y |-> y, theta |-> theta]

Reverse(seq) == [i \in 1 .. Len(seq) |-> seq[Len(seq) + 1 - i]]

\* the mutant: x is shifted by the slant of the canvas y, before the flip
transformOffsetSlantFirst(pt, offX, offY, ascender, slant, theta) ==
    LET x_local == FAdd(FConst(pt.x), offX)
        y_local == FSub(FConst(pt.y), offY)
        y_otf == FSub(FConst(R(ascender)), y_local)
        x_final == FAdd(x_local, FScale(y_local, slant))
    IN  RingPoint(x_final, y_otf, theta)

\* transform(pt, offX, offY) with scale = 1 and dx = dy = 0 (types.ts 301-321, the
\* same text in svgHelpers.ts 1039-1050 and part_001 269-289): the offsets are
\* added, y is flipped at the ascender, then x is shifted by y_otf * slant
transformOffset(pt, offX, offY, ascender, slant, theta) ==
    LET x_local == FAdd(FConst(pt.x), offX)
        y_local == FSub(FConst(pt.y), offY)
        y_otf == FSub(FConst(R(ascender)), y_local)
        x_final == FAdd(x_local, FScale(y_otf, slant))
    IN  RingPoint(x_final, y_otf, theta)

\* the dot of types.ts 325-346: 12 points on a circle of radius thickness * 0.6,
\* each of them transform(p, ox, -oy)
dotPoints(p, ascender, thickness, slant) ==
    [i \in 1 .. 12 |->
        transformOffset(p, RCos(RMul(R(thickness), Rat(6, 10))),
                        FNeg(RSin(RMul(R(thickness), Rat(6, 10)))),
                        ascender, slant, AddTurn(ZeroAngle, Rat(i - 1, 12)))]

\* the angle of the segment that gives point i its offsets: the segment that starts
\* at it, and for the last point the last segment (types.ts 366-388)
segmentAngle(points, i) ==
    IF i < Len(points) THEN getAngle(points[i], points[i + 1])
    ELSE getAngle(points[i - 1], points[i])

\* leftSide and rightSide of types.ts 366-388: leftAngle = angle - PI / 2,
\* transform(p, offX, -offY) and transform(p, -offX, offY)
leftSideTypes(points, ascender, halfWidth, slant) ==
    [i \in 1 .. Len(points) |->
        transformOffset(points[i], RCos(halfWidth), FNeg(RSin(halfWidth)), ascender, slant,
                        AddTurn(segmentAngle(points, i), Rat(-1, 4)))]

rightSideTypes(points, ascender, halfWidth, slant) ==
    [i \in 1 .. Len(points) |->
        transformOffset(points[i], FNeg(RCos(halfWidth)), RSin(halfWidth), ascender, slant,
                        AddTurn(segmentAngle(points, i), Rat(-1, 4)))]

\* getArc(center, startAng, endAng) of types.ts 353-364: the 7 inner points of 8
\* steps from startAng to endAng, the two given as angle + a fraction of a turn
getArc(center, angle, startTurn, endTurn, ascender, halfWidth, slant) ==
    [i \in 1 .. 7 |->
        transformOffset(center, RCos(halfWidth), FNeg(RSin(halfWidth)), ascender, slant,
                        AddTurn(angle, RAdd(startTurn,
                                            RMul(Rat(i, 8), RSub(endTurn, startTurn)))))]

\* the mutant: the right side is appended in the order it was collected
ringOfForward(leftSide, endCap, rightSide, startCap) ==
    leftSide \o endCap \o rightSide \o startCap

\* the ring of types.ts 410-433: left side forward, end cap, right side backward,
\* start cap
ringOf(leftSide, endCap, rightSide, startCap) ==
    leftSide \o endCap \o Reverse(rightSide) \o startCap

\* getStrokeOutlinePoints(stroke, 1, ascender, thickness, slant) of types.ts 295-434
getStrokeOutlinePointsTypes(stroke, ascender, thickness, slant) ==
    LET points == stroke.points
        n == Len(points)
        halfWidth == Rat(thickness, 2)
    IN  IF n = 0 THEN <<>>
        ELSE IF IsDot(points) THEN dotPoints(points[1], ascender, thickness, slant)
        ELSE ringOf(leftSideTypes(points, ascender, halfWidth, slant),
                    getArc(points[n], getAngle(points[n - 1], points[n]),
                           Rat(-1, 4), Rat(1, 4), ascender, halfWidth, slant),
                    rightSideTypes(points, ascender, halfWidth, slant),
                    getArc(points[1], getAngle(points[1], points[2]),
                           Rat(1, 4), Rat(3, 4), ascender, halfWidth, slant))

\* the dot of svgHelpers.ts 1052-1063 and part_001 291-304: the four corners of a
\* diamond of radius thickness * 0.8 around c = transform(p, 0, 0)
diamondPoints(c, r) ==
    <<RingPoint(c.x, FSub(c.y, FConst(r)), ZeroAngle),
      RingPoint(FAdd(c.x, FConst(r)), c.y, ZeroAngle),
      RingPoint(c.x, FAdd(c.y, FConst(r)), ZeroAngle),
      RingPoint(FSub(c.x, FConst(r)), c.y, ZeroAngle)>>

\* leftSide and rightSide of svgHelpers.ts 1065-1084 and part_001 306-325:
\* offsetX = halfWidth * sin(angle), offsetY = halfWidth * cos(angle),
\* transform(p, offsetX, offsetY) and transform(p, -offsetX, -offsetY)
leftSideSvg(points, ascender, halfWidth, slant) ==
    [i \in 1 .. Len(points) |->
        transformOffset(points[i], RSin(halfWidth), RCos(halfWidth), ascender, slant,
                        segmentAngle(points, i))]

rightSideSvg(points, ascender, halfWidth, slant) ==
    [i \in 1 .. Len(points) |->
        transformOffset(points[i], FNeg(RSin(halfWidth)), FNeg(RCos(halfWidth)),
                        ascender, slant, segmentAngle(points, i))]

\* getStrokeOutlinePoints(stroke, 1, ascender, thickness, slant, 0, 0) of
\* svgHelpers.ts 1035-1093: no caps
getStrokeOutlinePointsSvg(stroke, ascender, thickness, slant) ==
    LET points == stroke.points
        halfWidth == Rat(thickness, 2)
    IN  IF Len(points) = 0 THEN <<>>
        ELSE IF IsDot(points)
        THEN diamondPoints(transformOffset(points[1], FConst(R(0)), FConst(R(0)),
                                           ascender, slant, ZeroAngle),
                           RMul(R(thickness), Rat(8, 10)))
        ELSE ringOf(leftSideSvg(points, ascender, halfWidth, slant), <<>>,
                    rightSideSvg(points, ascender, halfWidth, slant), <<>>)

\* createOutlineFromStroke(stroke, 1, ascender, thickness, slant, 0, 0) of part_001
\* 262-341: the points of the moveTo and lineTo commands of the path it returns
createOutlineFromStroke(stroke, ascender, thickness, slant) ==
    LET points == stroke.points
        halfWidth == Rat(thickness, 2)
    IN  IF Len(points) = 0 THEN <<>>
        ELSE IF IsDot(points)
        THEN diamondPoints(transformOffset(points[1], FConst(R(0)), FConst(R(0)),
                                           ascender, slant, ZeroAngle),
                           RMul(R(thickness), Rat(8, 10)))
        ELSE ringOf(leftSideSvg(points, ascender, halfWidth, slant), <<>>,
                    rightSideSvg(points, ascender, halfWidth, slant), <<>>)

-----------------------------------------------------------------------------
(* The harness for smoothStrokes: one call on a bounded input *)

NoStrokes == <<>>
NoRing == <<>>
\* no union has been made
NoUnion == [shape |-> {}, calls |-> 0, isNull |-> TRUE]
NoNorm == [strokes |-> <<>>, advanceWidth |-> R(0), height |-> R(0)]
NoOut == [status |-> "none", fonts |-> <<>>]
NoCall == [fn |-> "none", src |-> "none", letterSpacing |-> 0,
           options |-> Options(0, R(0), ""), fail |-> NoFail]

SmoothInputs ==
    {<<Stroke(s)>> : s \in SeqsUpTo(PointSet, MaxSmoothPts)}
    \cup {<<Stroke(s), Stroke(t)>> : s \in SeqsUpTo(PointSet, 2), t \in SeqsUpTo(PointSet, 1)}
    \cup {<<>>}

InitSmooth ==
    /\ strokes \in SmoothInputs
    /\ smoothed = NoStrokes
    /\ pc = "start"
    /\ fontMap = <<>>
    /\ out = NoOut
    /\ call = NoCall
    /\ char = "A"
    /\ avgScale = R(1)
    /\ norm = NoNorm
    /\ outlinePoints = NoRing
    /\ fontName = <<>>
    /\ files = <<>>
    /\ strokeShapes = <<>>
    /\ united = NoUnion
    /\ unifiedPath = NoUnion
    /\ isDrawing = FALSE
    /\ currentStroke = <<>>

CallSmoothStrokes ==
    /\ pc = "start"
    /\ smoothed' = smoothStrokes(strokes)
    /\ pc' = "smoothed"
    /\ UNCHANGED <<fontMap, out, call, strokes, char, avgScale, norm, outlinePoints, fontName,
                   files, strokeShapes, united, unifiedPath, isDrawing, currentStroke>>

NextSmooth == CallSmoothStrokes

SpecSmooth == InitSmooth /\ [][NextSmooth]_vars

-----------------------------------------------------------------------------
(* The harness for normalizeStrokes: one call on a bounded input *)

\* one character of each branch of normalizeStrokes; "#" is outside every category
NormChars == {"A", "a", "b", "g", ",", ".", "#"}

\* corpus averages: the fallback 1000/300, and one a drawn "a" of height 2 gives
ScaleSet == {Rat(EM_HEIGHT, 300), Rat(X_HEIGHT, 2)}

InitNorm ==
    /\ strokes \in StrokeLists(MaxStrokes, MaxPts)
    /\ char = "A"
    /\ avgScale = R(1)
    /\ norm = NoNorm
    /\ pc = "start"
    /\ smoothed = NoStrokes
    /\ fontMap = <<>>
    /\ out = NoOut
    /\ call = NoCall
    /\ outlinePoints = NoRing
    /\ fontName = <<>>
    /\ files = <<>>
    /\ strokeShapes = <<>>
    /\ united = NoUnion
    /\ unifiedPath = NoUnion
    /\ isDrawing = FALSE
    /\ currentStroke = <<>>

CallNormalizeStrokes ==
    /\ pc = "start"
    /\ \E c \in NormChars, a \in ScaleSet :
          /\ char' = c
          /\ avgScale' = a
          /\ norm' = normalizeStrokes(strokes, c, a)
    /\ pc' = "normalized"
    /\ UNCHANGED <<fontMap, out, call, strokes, smoothed, outlinePoints, fontName, files,
                   strokeShapes, united, unifiedPath, isDrawing, currentStroke>>

NextNorm == CallNormalizeStrokes

SpecNorm == InitNorm /\ [][NextNorm]_vars

-----------------------------------------------------------------------------
(* normalizeStrokes applied to the strokes it returned *)

CallNormalizeAgain ==
    /\ pc = "normalized"
    /\ norm' = normalizeStrokes(norm.strokes, char, avgScale)
    /\ pc' = "renormalized"
    /\ UNCHANGED <<fontMap, out, call, strokes, char, avgScale, smoothed, outlinePoints,
                   fontName, files, strokeShapes, united, unifiedPath, isDrawing,
                   currentStroke>>

NextRenorm == CallNormalizeStrokes \/ CallNormalizeAgain

SpecRenorm == InitNorm /\ [][NextRenorm]_vars

-----------------------------------------------------------------------------
(* generateFontFamilyZip: src/types.ts 518-548 and src/utils/svgHelpers.ts 769-798 *)

\* the mutant: smoothStrokes writes the averaged points back into the strokes it reads
inputSmoothedInPlace(fm) ==
    [i \in 1 .. Len(fm) |-> [fm[i] EXCEPT !.strokes = smoothStrokes(@)]]

\* the fontMap argument as generateFont (types.ts) leaves it: smoothStrokes and
\* normalizeStrokes build new arrays and objects and assign to none they were given
inputAfterGenerateFont(fm) == fm

\* the same for generateFont of svgHelpers.ts 613-767
inputAfterGenerateFontSvg(fm) == fm

Regular == Options(50, R(0), "Regular")
Bold == Options(90, R(0), "Bold")
Italic == Options(50, Rat(1, 4), "Italic")

\* the three buffers put into the zip, or the throw of any of the three calls
familyOf(regular, bold, italic) ==
    IF regular.status = "threw" \/ bold.status = "threw" \/ italic.status = "threw"
    THEN Threw
    ELSE Returned(regular.fonts \o bold.fonts \o italic.fonts)

generateFontFamilyZipTypes(fm, letterSpacing, fail) ==
    familyOf(generateFontTypes(fm, letterSpacing, Regular, fail),
             generateFontTypes(inputAfterGenerateFont(fm), letterSpacing, Bold, fail),
             generateFontTypes(inputAfterGenerateFont(inputAfterGenerateFont(fm)),
                               letterSpacing, Italic, fail))

generateFontFamilyZipSvg(fm, letterSpacing, fail) ==
    familyOf(generateFontSvg(fm, letterSpacing, Regular, fail),
             generateFontSvg(inputAfterGenerateFontSvg(fm), letterSpacing, Bold, fail),
             generateFontSvg(inputAfterGenerateFontSvg(inputAfterGenerateFontSvg(fm)),
                             letterSpacing, Italic, fail))

-----------------------------------------------------------------------------
(* The font map and the calls of the font assembler *)

\* the font map is the sequence of its records in Object.keys order, which is the
\* insertion order for the keys of the model (none of them is a digit)
CharData(c, ss) == [char |-> c, strokes |-> ss, canvasWidth |-> 300, canvasHeight |-> 300]

\* the characters drawn in the model: a capital and an x-height letter
FontChars == {"A", "a"}

\* what a character's record holds: nothing (the canvas was cleared), a tap, a straight
\* stroke 6 wide and 11 high, a 3-point hook (which smoothing changes) with a tap above
Cleared == <<>>
Tap == <<Stroke(<<Point(R(1), R(1))>>)>>
Diag == <<Stroke(<<Point(R(0), R(0)), Point(R(6), R(11))>>)>>
Hook == <<Stroke(<<Point(R(0), R(3)), Point(R(1), R(5)), Point(R(2), R(3))>>),
          Stroke(<<Point(R(1), R(0))>>)>>
FontDrawings == {Cleared, Tap, Diag, Hook}

\* the letter spacing handed to the exports (App.tsx 241, 250 passes 0)
LetterSpacings == {0, 50}

StyleOptions == {Regular, Bold, Italic}

\* a font map as JSON.parse(localStorage) gives it: empty, or one holding a key
\* that is not in CHAR_SET
SavedFontMaps == {<<>>, <<CharData("#", Tap)>>}

\* at most one glyph whose outline step throws in the geometry library
FailChoices(fm, steps) ==
    {NoFail} \cup {[char |-> fm[i].char, step |-> st] : i \in 1 .. Len(fm), st \in steps}

Init ==
    /\ fontMap \in SavedFontMaps
    /\ out = NoOut
    /\ call = NoCall
    /\ pc = "idle"
    /\ strokes = NoStrokes
    /\ char = "A"
    /\ avgScale = R(1)
    /\ smoothed = NoStrokes
    /\ norm = NoNorm
    /\ outlinePoints = NoRing
    /\ fontName = <<>>
    /\ files = <<>>
    /\ strokeShapes = <<>>
    /\ united = NoUnion
    /\ unifiedPath = NoUnion
    /\ isDrawing = FALSE
    /\ currentStroke = <<>>

\* setFontMap(prev => ({ ...prev, [currentChar]: {...} })): App.tsx 129-151
handleSaveStrokes(c, d) ==
    /\ pc \in {"idle", "zipping"}
    /\ HasKey(fontMap, c) \/ Len(fontMap) < MaxGlyphs
    /\ fontMap' = IF HasKey(fontMap, c)
                  THEN [i \in 1 .. Len(fontMap) |->
                           IF fontMap[i].char = c THEN CharData(c, d) ELSE fontMap[i]]
                  ELSE Append(fontMap, CharData(c, d))
    /\ UNCHANGED <<out, call, pc, strokes, char, avgScale, smoothed, norm, outlinePoints,
                   fontName, files, strokeShapes, united, unifiedPath, isDrawing,
                   currentStroke>>

\* setFontMap({}): App.tsx 214-227
confirmReset ==
    /\ pc \in {"idle", "zipping"}
    /\ fontMap # <<>>
    /\ fontMap' = <<>>
    /\ UNCHANGED <<out, call, pc, strokes, char, avgScale, smoothed, norm, outlinePoints,
                   fontName, files, strokeShapes, united, unifiedPath, isDrawing,
                   currentStroke>>

CallGenerateFontTypes ==
    /\ pc = "idle"
    /\ \E ls \in LetterSpacings, o \in StyleOptions, f \in FailChoices(fontMap, {"union"}) :
          /\ out' = generateFontTypes(fontMap, ls, o, f)
          /\ call' = [fn |-> "generateFont", src |-> "types", letterSpacing |-> ls,
                      options |-> o, fail |-> f]
    /\ fontMap' = inputAfterGenerateFont(fontMap)
    /\ pc' = "returned"
    /\ UNCHANGED <<strokes, char, avgScale, smoothed, norm, outlinePoints, fontName, files,
                   strokeShapes, united, unifiedPath, isDrawing, currentStroke>>

CallGenerateFontSvg ==
    /\ pc = "idle"
    /\ \E ls \in LetterSpacings, o \in StyleOptions,
          f \in FailChoices(fontMap, {"expand", "union"}) :
          /\ out' = generateFontSvg(fontMap, ls, o, f)
          /\ call' = [fn |-> "generateFont", src |-> "svgHelpers", letterSpacing |-> ls,
                      options |-> o, fail |-> f]
    /\ fontMap' = inputAfterGenerateFontSvg(fontMap)
    /\ pc' = "returned"
    /\ UNCHANGED <<strokes, char, avgScale, smoothed, norm, outlinePoints, fontName, files,
                   strokeShapes, united, unifiedPath, isDrawing, currentStroke>>

CallGenerateFontFamilyZipTypes ==
    /\ pc = "idle"
    /\ \E ls \in LetterSpacings, f \in FailChoices(fontMap, {"union"}) :
          /\ out' = generateFontFamilyZipTypes(fontMap, ls, f)
          /\ call' = [fn |-> "generateFontFamilyZip", src |-> "types", letterSpacing |-> ls,
                      options |-> Regular, fail |-> f]
    /\ fontMap' = inputAfterGenerateFont(inputAfterGenerateFont(inputAfterGenerateFont(fontMap)))
    /\ pc' = "returned"
    /\ UNCHANGED <<strokes, char, avgScale, smoothed, norm, outlinePoints, fontName, files,
                   strokeShapes, united, unifiedPath, isDrawing, currentStroke>>

CallGenerateFontFamilyZipSvg ==
    /\ pc = "idle"
    /\ \E ls \in LetterSpacings, f \in FailChoices(fontMap, {"expand", "union"}) :
          /\ out' = generateFontFamilyZipSvg(fontMap, ls, f)
          /\ call' = [fn |-> "generateFontFamilyZip", src |-> "svgHelpers",
                      letterSpacing |-> ls, options |-> Regular, fail |-> f]
    /\ fontMap' = inputAfterGenerateFontSvg(
                      inputAfterGenerateFontSvg(inputAfterGenerateFontSvg(fontMap)))
    /\ pc' = "returned"
    /\ UNCHANGED <<strokes, char, avgScale, smoothed, norm, outlinePoints, fontName, files,
                   strokeShapes, united, unifiedPath, isDrawing, currentStroke>>

\* the buffer is handed to the download and dropped: src/types.ts 550-560
downloadFile ==
    /\ pc = "returned"
    /\ out' = NoOut
    /\ call' = NoCall
    /\ pc' = "idle"
    /\ UNCHANGED <<fontMap, strokes, char, avgScale, smoothed, norm, outlinePoints, fontName,
                   files, strokeShapes, united, unifiedPath, isDrawing, currentStroke>>

Next ==
    \/ \E c \in FontChars, d \in FontDrawings : handleSaveStrokes(c, d)
    \/ confirmReset
    \/ CallGenerateFontTypes
    \/ CallGenerateFontSvg
    \/ CallGenerateFontFamilyZipTypes
    \/ CallGenerateFontFamilyZipSvg
    \/ downloadFile

Spec == Init /\ [][Next]_vars

-----------------------------------------------------------------------------
(* The harness for calculateAvgScale: one call on a bounded font map, and the     *)
(* normalizeStrokes calls generateFont makes with its result (types.ts 456-463)  *)

\* a stroke half a canvas unit high, a horizontal stroke, and a stroke list that
\* holds no point
Flat == <<Stroke(<<Point(R(0), R(0)), Point(R(3), Rat(1, 2))>>)>>
Dash == <<Stroke(<<Point(R(0), R(2)), Point(R(4), R(2))>>)>>
Pointless == <<Stroke(<<>>)>>

\* one character of each sampled set, and the two punctuation marks
AvgChars == {"A", "a", "b", "g", ".", ","}
AvgDrawings == {Cleared, Dash, Diag, Hook, Flat, Pointless}

\* the font maps of at most MaxGlyphs records
AvgFontMaps ==
    {fm \in UNION {[1 .. k -> {CharData(c, d) : c \in AvgChars, d \in AvgDrawings}] :
                      k \in 0 .. MaxGlyphs} :
        \A i, j \in 1 .. Len(fm) : i # j => fm[i].char # fm[j].char}

InitAvg ==
    /\ fontMap \in AvgFontMaps
    /\ avgScale = R(0)
    /\ pc = "start"
    /\ out = NoOut
    /\ call = NoCall
    /\ strokes = NoStrokes
    /\ char = "A"
    /\ smoothed = NoStrokes
    /\ norm = NoNorm
    /\ outlinePoints = NoRing
    /\ fontName = <<>>
    /\ files = <<>>
    /\ strokeShapes = <<>>
    /\ united = NoUnion
    /\ unifiedPath = NoUnion
    /\ isDrawing = FALSE
    /\ currentStroke = <<>>

CallCalculateAvgScale ==
    /\ pc = "start"
    /\ avgScale' = calculateAvgScale(fontMap)
    /\ pc' = "averaged"
    /\ UNCHANGED <<fontMap, out, call, strokes, char, smoothed, norm, outlinePoints, fontName,
                   files, strokeShapes, united, unifiedPath, isDrawing, currentStroke>>

\* const normalized = normalizeStrokes(data.strokes, char, avgScale) for one key of
\* the map whose record holds a stroke
CallNormalizeRecord(i) ==
    /\ pc = "averaged"
    /\ Len(fontMap[i].strokes) # 0
    /\ strokes' = fontMap[i].strokes
    /\ char' = fontMap[i].char
    /\ norm' = normalizeStrokes(fontMap[i].strokes, fontMap[i].char, avgScale)
    /\ pc' = "normalized"
    /\ UNCHANGED <<fontMap, out, call, avgScale, smoothed, outlinePoints, fontName, files,
                   strokeShapes, united, unifiedPath, isDrawing, currentStroke>>

NextAvg ==
    \/ CallCalculateAvgScale
    \/ \E i \in 1 .. Len(fontMap) : CallNormalizeRecord(i)

SpecAvg == InitAvg /\ [][NextAvg]_vars

-----------------------------------------------------------------------------
(* The harness for the outline builders: one call on a bounded stroke, or the     *)
(* generateFont calls on a font map whose '.' is a single tap                    *)

\* font-space x coordinates of the points of the stroke: 1 apart (closer than the
\* dot epsilon 2) and 3 apart
OutlineXs == {0, 1, 3}
OutlinePointSet == {Point(R(x), R(y)) : x \in OutlineXs, y \in 0 .. MaxY}
OutlineStrokes == {Stroke(s) : s \in SeqsUpTo(OutlinePointSet, MaxPts)}

TappedPeriod == <<CharData(".", Tap)>>

InitOutline ==
    /\ \/ pc = "start" /\ fontMap = <<>> /\ strokes \in {<<s>> : s \in OutlineStrokes}
       \/ pc = "idle" /\ fontMap = TappedPeriod /\ strokes = NoStrokes
    /\ out = NoOut
    /\ call = NoCall
    /\ char = "A"
    /\ avgScale = R(1)
    /\ smoothed = NoStrokes
    /\ norm = NoNorm
    /\ outlinePoints = NoRing
    /\ fontName = <<>>
    /\ files = <<>>
    /\ strokeShapes = <<>>
    /\ united = NoUnion
    /\ unifiedPath = NoUnion
    /\ isDrawing = FALSE
    /\ currentStroke = <<>>

OutlineCall(src, options) ==
    [fn |-> "getStrokeOutlinePoints", src |-> src, letterSpacing |-> 0,
     options |-> options, fail |-> NoFail]

\* const ring = getStrokeOutlinePoints(stroke, 1, 800, thickness, slant): types.ts 471
CallGetStrokeOutlinePointsTypes ==
    /\ pc = "start"
    /\ \E o \in StyleOptions :
          /\ outlinePoints' = getStrokeOutlinePointsTypes(strokes[1], 800, o.thickness, o.slant)
          /\ call' = OutlineCall("types", o)
    /\ pc' = "outlined"
    /\ UNCHANGED <<fontMap, out, strokes, char, avgScale, smoothed, norm, fontName, files,
                   strokeShapes, united, unifiedPath, isDrawing, currentStroke>>

\* getStrokeOutlinePoints(stroke, 1, ascender, thickness, slant, 0, 0): svgHelpers.ts 1149
CallGetStrokeOutlinePointsSvg ==
    /\ pc = "start"
    /\ \E o \in StyleOptions :
          /\ outlinePoints' = getStrokeOutlinePointsSvg(strokes[1], 800, o.thickness, o.slant)
          /\ call' = OutlineCall("svgHelpers", o)
    /\ pc' = "outlined"
    /\ UNCHANGED <<fontMap, out, strokes, char, avgScale, smoothed, norm, fontName, files,
                   strokeShapes, united, unifiedPath, isDrawing, currentStroke>>

\* createOutlineFromStroke(stroke, 1, ascender, thickness, slant, 0, 0): part_001 399
CallCreateOutlineFromStroke ==
    /\ pc = "start"
    /\ \E o \in StyleOptions :
          /\ outlinePoints' = createOutlineFromStroke(strokes[1], 800, o.thickness, o.slant)
          /\ call' = OutlineCall("part_001", o)
    /\ pc' = "outlined"
    /\ UNCHANGED <<fontMap, out, strokes, char, avgScale, smoothed, norm, fontName, files,
                   strokeShapes, united, unifiedPath, isDrawing, currentStroke>>

NextOutline ==
    \/ CallGetStrokeOutlinePointsTypes
    \/ CallGetStrokeOutlinePointsSvg
    \/ CallCreateOutlineFromStroke
    \/ CallGenerateFontTypes
    \/ CallGenerateFontSvg

SpecOutline == InitOutline /\ [][NextOutline]_vars

-----------------------------------------------------------------------------
(* C7 *)

\* three times q equals a + b + c, coordinate by coordinate
IsMeanOf(q, a, b, c) ==
    /\ RMul(Three, q.x) = RAdd(a.x, RAdd(b.x, c.x))
    /\ RMul(Three, q.y) = RAdd(a.y, RAdd(b.y, c.y))

\* C7: smoothStrokes returns as many strokes as it was given; a stroke of fewer than
\* 3 points comes back unchanged; a stroke of n >= 3 points comes back with n points,
\* its first and last point unchanged and every interior point the mean of the
\* ORIGINAL points at i-1, i, i+1.
C7_SmoothingIsMovingAverage ==
    pc = "smoothed" =>
        /\ Len(smoothed) = Len(strokes)
        /\ \A k \in 1 .. Len(strokes) :
              LET p == strokes[k].points
                  q == smoothed[k].points
                  n == Len(p)
              IN  IF n < 3 THEN smoothed[k] = strokes[k]
                  ELSE /\ Len(q) = n
                       /\ q[1] = p[1]
                       /\ q[n] = p[n]
                       /\ \A i \in 2 .. n - 1 : IsMeanOf(q[i], p[i - 1], p[i], p[i + 1])

\* a stroke of 4 points whose second interior point was moved by the smoothing, next
\* to a first interior point that was moved too
C7_Witness ==
    /\ pc = "smoothed"
    /\ \E k \in 1 .. Len(strokes) :
          /\ Len(strokes[k].points) = 4
          /\ smoothed[k].points[2] # strokes[k].points[2]
          /\ smoothed[k].points[3] # strokes[k].points[3]

-----------------------------------------------------------------------------
(* C8, C9, C10: the vertical placement normalizeStrokes gives each category *)

\* the points normalizeStrokes measures (the smoothed input) and those it returns
InPts == AllPoints(smoothStrokes(strokes))
OutPts == AllPoints(norm.strokes)
InHeight == RSub(MaxOf(Ys(InPts)), MinOf(Ys(InPts)))
InWidth == RSub(MaxOf(Xs(InPts)), MinOf(Xs(InPts)))
OutTop == MinOf(Ys(OutPts))
OutBottom == MaxOf(Ys(OutPts))
OutExtent == RSub(OutBottom, OutTop)
Normalized == pc = "normalized" /\ InPts # <<>>

TargetHeight(c) ==
    IF c \in CAPS_CHARS THEN CAP_HEIGHT
    ELSE IF c \in SMALL_CHARS THEN X_HEIGHT
    ELSE IF c \in TALL_CHARS THEN ASCENDER_HEIGHT
    ELSE CAP_HEIGHT
BaselineChars == CAPS_CHARS \cup SMALL_CHARS \cup TALL_CHARS
LetterChars == BaselineChars \cup DESC_CHARS

ScaledFromTop(inPts, outPts, inTop, outTop, scale) ==
    \A i \in 1 .. Len(inPts) :
        RSub(outPts[i].y, outTop) = RMul(RSub(inPts[i].y, inTop), scale)

\* the normalized glyph is the smoothed input scaled by exactly avgScale
ScaledByAvgScale ==
    /\ norm.advanceWidth = RAdd(RMul(InWidth, avgScale), R(LSB + RSB))
    /\ OutExtent = RMul(InHeight, avgScale)
    /\ ScaledFromTop(InPts, OutPts, MinOf(Ys(InPts)), OutTop, avgScale)

-----------------------------------------------------------------------------
(* C1 - C6: the glyph list of generateFont and generateFontFamilyZip *)

\* a generateFont call has returned a font
SingleReturned == pc = "returned" /\ call.fn = "generateFont" /\ out.status = "ok"
FamilyReturned == pc = "returned" /\ call.fn = "generateFontFamilyZip" /\ out.status = "ok"

\* the glyph list handed to the serializer by a single call
GlyphList == out.fonts[1].glyphs
GlyphNames(glyphs) == [k \in 1 .. Len(glyphs) |-> glyphs[k].name]

\* the record of character c has at least one stroke
Drawn(c) == HasKey(fontMap, c) /\ Len(Lookup(fontMap, c).strokes) >= 1

\* the drawn characters of the supported set, in supported-set order
DrawnInOrder == SelectSeq(CHAR_SET, Drawn)

\* every key the font map of the model can hold
KeyUniverse == Range(CHAR_SET) \cup {"#"}

\* C1 as stated: the glyph list starts with .notdef (code point 0), then space (code
\* point 32, empty outline), then the drawn characters in supported-set order, and
\* holds exactly one glyph with code point 0 and exactly one with code point 32
C1_AsStated ==
    SingleReturned
        => /\ Len(GlyphList) >= 2
           /\ GlyphList[1].name = ".notdef" /\ GlyphList[1].unicode = 0
           /\ GlyphList[2].name = "space" /\ GlyphList[2].unicode = 32
           /\ GlyphList[2].path = <<>>
           /\ GlyphNames(SubSeq(GlyphList, 3, Len(GlyphList))) = DrawnInOrder
           /\ Cardinality({k \in 1 .. Len(GlyphList) : GlyphList[k].unicode = 0}) = 1
           /\ Cardinality({k \in 1 .. Len(GlyphList) : GlyphList[k].unicode = 32}) = 1

\* the empty font map handed to generateFont of types.ts: the list is .notdef alone
C1_Failing ==
    /\ SingleReturned
    /\ call.src = "types"
    /\ fontMap = <<>>
    /\ GlyphNames(GlyphList) = <<".notdef">>

\* C2 as stated: besides .notdef and space the font holds a glyph for c exactly when
\* c is in the supported set and its record has at least one stroke, and the empty
\* font map gives exactly .notdef and space
C2_AsStated ==
    SingleReturned
        => /\ \A c \in KeyUniverse :
                (\E k \in 1 .. Len(GlyphList) : GlyphList[k].name = c)
                    <=> (c \in Range(CHAR_SET) /\ Drawn(c))
           /\ fontMap = <<>> => GlyphNames(GlyphList) = <<".notdef", "space">>

\* a key outside the supported set gets a glyph from generateFont of types.ts
C2_Failing ==
    /\ SingleReturned
    /\ call.src = "types"
    /\ Drawn("#")
    /\ \E k \in 1 .. Len(GlyphList) : GlyphList[k].name = "#"

\* the outline of the glyph named by call.fail was built and threw
OutlineThrew ==
    /\ call.fail # NoFail
    /\ Drawn(call.fail.char)
    /\ \/ call.fail.step = "expand"
          /\ \E k \in 1 .. Len(Lookup(fontMap, call.fail.char).strokes) :
                Len(Lookup(fontMap, call.fail.char).strokes[k].points) > 1
       \/ call.fail.step = "union" /\ call.src = "types"
       \/ call.fail.step = "union" /\ call.src = "svgHelpers"
          /\ Len(Lookup(fontMap, call.fail.char).strokes) > 1

\* C3 as stated: when the outline of one glyph throws, generateFont still returns a
\* font, and the font holds every other drawn glyph
C3_AsStated ==
    (pc = "returned" /\ call.fn = "generateFont" /\ OutlineThrew)
        => /\ out.status = "ok"
           /\ \A c \in Range(CHAR_SET) \ {call.fail.char} :
                 Drawn(c) => \E k \in 1 .. Len(GlyphList) : GlyphList[k].name = c

\* polygonClipping.union throws for 'A' and generateFont of types.ts throws, although
\* another character is drawn
C3_Failing ==
    /\ pc = "returned"
    /\ call.fn = "generateFont"
    /\ call.src = "types"
    /\ OutlineThrew
    /\ \E c \in Range(CHAR_SET) \ {call.fail.char} : Drawn(c)
    /\ out.status = "threw"

\* the Normalizer's advance width of character c
NormalizedAdvance(c) ==
    IF call.src = "types"
    THEN normalizeStrokes(Lookup(fontMap, c).strokes, c,
                          calculateAvgScale(fontMap)).advanceWidth
    ELSE normalizeStrokesSvg(Lookup(fontMap, c).strokes, c,
                             calculateAvgScale(fontMap)).advanceWidth

\* C4 as stated: the advance width of every drawn character is the Normalizer's
\* advance width plus letterSpacing * 10
C4_AsStated ==
    SingleReturned
        => \A k \in 1 .. Len(GlyphList) :
              GlyphList[k].name \in KeyUniverse
                  => GlyphList[k].advanceWidth =
                         RAdd(NormalizedAdvance(GlyphList[k].name),
                              R(call.letterSpacing * 10))

\* a normalized advance width of 400 with letterSpacing = 50 gives 450 in types.ts
C4_Failing ==
    /\ SingleReturned
    /\ call.src = "types"
    /\ call.letterSpacing = 50
    /\ \E k \in 1 .. Len(GlyphList) :
          /\ GlyphList[k].name = "a"
          /\ NormalizedAdvance("a") = R(400)
          /\ GlyphList[k].advanceWidth = R(450)

\* the advance widths of a glyph list, by glyph name
Advances(glyphs) ==
    [k \in 1 .. Len(glyphs) |-> <<glyphs[k].name, glyphs[k].advanceWidth>>]

\* the same call with the Regular thickness and slant
RegularCall ==
    IF call.src = "types"
    THEN generateFontTypes(fontMap, call.letterSpacing, Regular, call.fail)
    ELSE generateFontSvg(fontMap, call.letterSpacing, Regular, call.fail)

\* C5: the Regular, Bold and Italic fonts of a family export hold the same glyphs
\* with the same advance widths, and the advance widths of a single font of any
\* thickness and slant are those of the Regular font
C5_AdvanceIndependentOfStyle ==
    /\ FamilyReturned
          => /\ Advances(out.fonts[1].glyphs) = Advances(out.fonts[2].glyphs)
             /\ Advances(out.fonts[1].glyphs) = Advances(out.fonts[3].glyphs)
    /\ SingleReturned
          => Advances(GlyphList) = Advances(RegularCall.fonts[1].glyphs)

C5_Witness ==
    /\ FamilyReturned
    /\ call.src = "types"
    /\ call.letterSpacing = 50
    /\ Drawn("A") /\ Drawn("a")
    /\ out.fonts[2].styleName = "Bold"
    /\ \E k \in 1 .. Len(out.fonts[2].glyphs) :
          /\ out.fonts[2].glyphs[k].name = "a"
          /\ out.fonts[2].glyphs[k].path # out.fonts[1].glyphs[k].path
          /\ out.fonts[3].glyphs[k].path # out.fonts[1].glyphs[k].path

\* the call recorded in cl, made again on the font map fm
Regenerated(cl, fm) ==
    IF cl.fn = "generateFont"
    THEN IF cl.src = "types"
         THEN generateFontTypes(fm, cl.letterSpacing, cl.options, cl.fail)
         ELSE generateFontSvg(fm, cl.letterSpacing, cl.options, cl.fail)
    ELSE IF cl.src = "types"
         THEN generateFontFamilyZipTypes(fm, cl.letterSpacing, cl.fail)
         ELSE generateFontFamilyZipSvg(fm, cl.letterSpacing, cl.fail)

-----------------------------------------------------------------------------
(* C11: calculateAvgScale *)

\* the records that add a sample: a character of the caps, x-height, ascender or
\* descender set whose strokes hold a point
SampleRecords ==
    {i \in 1 .. Len(fontMap) :
        fontMap[i].char \in LetterChars /\ AllPoints(fontMap[i].strokes) # <<>>}

\* the height of the drawn points of a stroke list, unsmoothed
RawDrawnHeight(ss) == RSub(MaxOf(Ys(AllPoints(ss))), MinOf(Ys(AllPoints(ss))))

\* category target height / max(raw drawn height, 1), summed over the records from i on
RECURSIVE SumIdealScales(_)
SumIdealScales(i) ==
    IF i > Len(fontMap) THEN R(0)
    ELSE IF i \in SampleRecords
    THEN RAdd(RDiv(R(TargetHeight(fontMap[i].char)),
                   RMax(RawDrawnHeight(fontMap[i].strokes), R(1))),
              SumIdealScales(i + 1))
    ELSE SumIdealScales(i + 1)

\* C11: calculateAvgScale returns the arithmetic mean, over every character of the
\* caps, x-height, ascender and descender sets that is drawn with at least one point,
\* of its category target height divided by its raw drawn height floored at 1; the
\* records of '.' and ',' change nothing; with no such character it returns 1000/300
C11_AvgScaleIsMean ==
    pc \in {"averaged", "normalized"} =>
        /\ SampleRecords = {} => avgScale = Rat(1000, 300)
        /\ SampleRecords # {}
              => RMul(avgScale, R(Cardinality(SampleRecords))) = SumIdealScales(1)
        /\ avgScale = calculateAvgScale(SelectSeq(fontMap,
                                                  LAMBDA d : d.char \notin {".", ","}))

\* an 'A' 5 high (11/3 once smoothed) and a flat 'a': the mean of 750/5 and 550/1
C11_Witness ==
    /\ pc = "averaged"
    /\ Lookup(fontMap, "A").strokes = Hook
    /\ Lookup(fontMap, "a").strokes = Dash
    /\ avgScale = R(350)

-----------------------------------------------------------------------------
(* C12 - C15: the transform of normalizeStrokes *)

\* the scale of the character's category for the measured (smoothed) height
CategoryScale ==
    IF char \in LetterChars
    THEN RDiv(R(TargetHeight(char)), RMax(InHeight, R(1)))
    ELSE avgScale

\* the relation of C12 between the measured points, the normalized points, the scale
\* and the advance width
ScaledWithBearings(inPts, outPts, scale, width, advanceWidth) ==
    /\ Len(outPts) = Len(inPts)
    /\ \A i \in 1 .. Len(inPts) :
          /\ RSub(outPts[i].x, outPts[1].x) = RMul(scale, RSub(inPts[i].x, inPts[1].x))
          /\ RSub(outPts[i].y, outPts[1].y) = RMul(scale, RSub(inPts[i].y, inPts[1].y))
    /\ MinOf(Xs(outPts)) = R(50)
    /\ MaxOf(Xs(outPts)) = RSub(advanceWidth, R(50))
    /\ advanceWidth = RAdd(RMul(scale, width), R(50 + 50))

\* C12: for an input with at least one point every normalized point is the measured
\* point scaled by one factor in x and in y (the scale of the character's category),
\* the leftmost normalized point is at x = 50, the rightmost at advanceWidth - 50,
\* and advanceWidth = scale * width of the measured bounding box + 50 + 50
C12_UniformScaleAndBearings ==
    Normalized =>
        ScaledWithBearings(InPts, OutPts, CategoryScale, InWidth, norm.advanceWidth)

\* an 'a' of two strokes, one unit wide and one high: scale 550, advance width 650
C12_Witness ==
    /\ Normalized
    /\ char = "a"
    /\ Len(strokes) = 2
    /\ InWidth = R(1)
    /\ InHeight = R(1)
    /\ MinOf(Xs(OutPts)) = R(50)
    /\ MaxOf(Xs(OutPts)) = R(600)
    /\ norm.advanceWidth = R(650)

\* C13: for an empty stroke list, and for strokes that hold no point at all,
\* normalizeStrokes returns a result: as many strokes as it was given, none of them
\* holding a point, advanceWidth = 0 and height = 1000
C13_EmptyInput ==
    (pc = "normalized" /\ AllPoints(strokes) = <<>>)
        => /\ Len(norm.strokes) = Len(strokes)
           /\ AllPoints(norm.strokes) = <<>>
           /\ norm.advanceWidth = R(0)
           /\ norm.height = R(EM_HEIGHT)

\* two strokes without points handed to normalizeStrokes
C13_Witness ==
    /\ pc = "normalized"
    /\ Len(strokes) = 2
    /\ AllPoints(strokes) = <<>>
    /\ Len(norm.strokes) = 2
    /\ norm.advanceWidth = R(0)

\* a number that is neither NaN nor an infinity
IsFinite(r) == r[2] > 0

\* C14: the heights calculateAvgScale and normalizeStrokes divide by are floored at
\* 1, so avgScale is a finite number, every coordinate and the advance width
\* normalizeStrokes returns are finite numbers, and a letter with a bounding box of
\* height zero is scaled by its target height / 1: its points stay on one line and
\* its advance width is target * width + 100
C14_NoDivisionByZero ==
    /\ pc \in {"averaged", "normalized"} => IsFinite(avgScale)
    /\ Normalized
          => /\ IsFinite(norm.advanceWidth)
             /\ \A i \in 1 .. Len(OutPts) : IsFinite(OutPts[i].x) /\ IsFinite(OutPts[i].y)
             /\ (InHeight = R(0) /\ char \in LetterChars)
                   => /\ OutTop = OutBottom
                      /\ norm.advanceWidth
                            = RAdd(RMul(R(TargetHeight(char)), InWidth), R(50 + 50))

\* a horizontal stroke 4 wide drawn for 'A', alone in the map: avgScale is 750 / 1
\* and the advance width 750 * 4 + 100
C14_Witness ==
    /\ Normalized
    /\ char = "A"
    /\ strokes = Dash
    /\ InHeight = R(0)
    /\ avgScale = R(750)
    /\ norm.advanceWidth = R(3100)

\* the result of the first of the two normalizeStrokes calls
FirstNorm == normalizeStrokes(strokes, char, avgScale)

\* C15 as stated: for a character with a fixed target height, normalizeStrokes
\* applied to the strokes it returned (same character, same avgScale) returns the
\* same points and the same advance width
C15_AsStated ==
    (pc = "renormalized" /\ char \in LetterChars)
        => /\ norm.strokes = FirstNorm.strokes
           /\ norm.advanceWidth = FirstNorm.advanceWidth

\* an 'A' drawn as one stroke of three points, one unit high once smoothed: the
\* first call gives it the cap height, the second call smooths it again and moves
\* its middle point
C15_Failing ==
    /\ pc = "renormalized"
    /\ char = "A"
    /\ strokes = <<Stroke(<<Point(R(0), R(0)), Point(R(1), R(0)), Point(R(1), R(1))>>)>>
    /\ FirstNorm.strokes[1].points[2] = Point(R(550), R(300))
    /\ norm.strokes[1].points[2] = Point(Rat(1400, 3), Rat(1150, 3))

-----------------------------------------------------------------------------
(* C16 - C19: the rings of the outline builders *)

Outlined == pc = "outlined"
\* the points of the stroke handed to the builder
StrokePoints == strokes[1].points

\* one point, or two points less than 2 apart
DotStroke ==
    \/ Len(StrokePoints) = 1
    \/ /\ Len(StrokePoints) = 2
       /\ RLt(distSq(StrokePoints[1], StrokePoints[2]), R(2 * 2))

\* the constant part of a ring point: the point its offset is taken around
CenterOf(q) == <<q.x[1], q.y[1]>>

\* point i of the stroke in font space under the slant s: y flipped at the ascender
\* 800, x shifted by s times that y
FontSpace(i, s) ==
    <<RAdd(StrokePoints[i].x, RMul(RSub(R(800), StrokePoints[i].y), s)),
      RSub(R(800), StrokePoints[i].y)>>

\* C16: a stroke of one point, or of two points less than 2 apart, gives the dot
\* polygon around the transformed first point: 12 points in the circle builder, each
\* the same offset turned by a twelfth more, and the 4 corners of a diamond in the
\* diamond builders; every ring built for a stroke of at least one point has at
\* least 3 points (and as many as the font assembler counts); and a '.' drawn as a
\* single tap gets a glyph with an outline and a non-zero advance width
C16_DotPolygon ==
    /\ (Outlined /\ Len(StrokePoints) >= 1) => Len(outlinePoints) >= 3
    /\ (Outlined /\ call.src = "types")
          => Len(outlinePoints) =
                 getStrokeOutlinePoints(strokes[1], 800, call.options.thickness,
                                        call.options.slant).n
    /\ (Outlined /\ DotStroke /\ call.src = "types")
          => /\ Len(outlinePoints) = 12
             /\ \A i \in 1 .. 12 :
                   /\ CenterOf(outlinePoints[i]) = FontSpace(1, call.options.slant)
                   /\ outlinePoints[i].theta.turn = Rat(i - 1, 12)
                   /\ FSub(outlinePoints[i].x, outlinePoints[1].x) = FConst(R(0))
                   /\ FSub(outlinePoints[i].y, outlinePoints[1].y) = FConst(R(0))
    /\ (Outlined /\ DotStroke /\ call.src # "types")
          => /\ Len(outlinePoints) = 4
             /\ \A i \in 1 .. 2 :
                   /\ outlinePoints[i] # outlinePoints[i + 2]
                   /\ FAdd(outlinePoints[i].x, outlinePoints[i + 2].x)
                         = FConst(RMul(R(2), FontSpace(1, call.options.slant)[1]))
                   /\ FAdd(outlinePoints[i].y, outlinePoints[i + 2].y)
                         = FConst(RMul(R(2), FontSpace(1, call.options.slant)[2]))
    /\ (SingleReturned /\ fontMap = TappedPeriod)
          => \E k \in 1 .. Len(GlyphList) :
                /\ GlyphList[k].name = "."
                /\ GlyphList[k].path # <<>>
                /\ RLt(R(0), GlyphList[k].advanceWidth)

\* two distinct points one unit apart handed to the circle builder: 12 points
C16_Witness ==
    /\ Outlined
    /\ call.src = "types"
    /\ Len(StrokePoints) = 2
    /\ StrokePoints[1] # StrokePoints[2]
    /\ Len(outlinePoints) = 12

\* the builder of the call, on another stroke or with other options
BuilderRing(src, stroke, options) ==
    IF src = "types"
    THEN getStrokeOutlinePointsTypes(stroke, 800, options.thickness, options.slant)
    ELSE IF src = "svgHelpers"
    THEN getStrokeOutlinePointsSvg(stroke, 800, options.thickness, options.slant)
    ELSE createOutlineFromStroke(stroke, 800, options.thickness, options.slant)

\* at least one point, and all points less than 2 from each other
Collapsed ==
    /\ Len(StrokePoints) >= 1
    /\ \A i, j \in 1 .. Len(StrokePoints) :
          RLt(distSq(StrokePoints[i], StrokePoints[j]), R(2 * 2))

\* C17 as stated: every stroke whose points all lie within the dot epsilon of each
\* other, strokes of three or more such points included, gets the ring of the dot
\* case: the dot polygon around its first point
C17_AsStated ==
    (Outlined /\ Collapsed)
        => outlinePoints = BuilderRing(call.src, Stroke(<<StrokePoints[1]>>), call.options)

\* three coincident points handed to the circle builder: the stroke branch builds a
\* ring of 2 * 3 + 14 points around atan2(0, 0)
C17_Failing ==
    /\ Outlined
    /\ call.src = "types"
    /\ StrokePoints = <<Point(R(0), R(0)), Point(R(0), R(0)), Point(R(0), R(0))>>
    /\ Len(outlinePoints) = 20
    /\ outlinePoints[1].theta = Angle(R(0), R(0), Rat(-1, 4))

\* ring points a and b are the two offsets of stroke point i: opposite each other
\* around it
OppositeAround(a, b, i) ==
    /\ a.theta = b.theta
    /\ FAdd(a.x, b.x) = FConst(RMul(R(2), FontSpace(i, call.options.slant)[1]))
    /\ FAdd(a.y, b.y) = FConst(RMul(R(2), FontSpace(i, call.options.slant)[2]))
    /\ a # b

\* the ring points from position first on are count cap points around stroke point i,
\* turned from more than fromTurn to less than toTurn of a full turn
CapAround(first, count, i, fromTurn, toTurn) ==
    \A j \in 1 .. count :
        /\ CenterOf(outlinePoints[first + j - 1]) = FontSpace(i, call.options.slant)
        /\ RLt(fromTurn, outlinePoints[first + j - 1].theta.turn)
        /\ RLt(outlinePoints[first + j - 1].theta.turn, toTurn)

\* the number of arc points of one cap: 7 in the round-cap builder, none in the
\* bevel builders
CapPoints == IF call.src = "types" THEN 7 ELSE 0

\* C18: the ring of a non-dot stroke of n points is the n left offsets of points
\* 1 .. n, the end-cap points around point n, the n right offsets of points n .. 1
\* (each opposite the left offset of its point) and the start-cap points around
\* point 1; it has 2n + 14 points in the round-cap builder (7 per cap) and 2n in the
\* bevel builders, so at least 2 * (n - 1) and at least 3
C18_RingLayout ==
    (Outlined /\ Len(StrokePoints) >= 2 /\ ~DotStroke)
        => LET n == Len(StrokePoints)
           IN  /\ Len(outlinePoints) = 2 * n + 2 * CapPoints
               /\ call.src = "types" => Len(outlinePoints) = 2 * n + 14
               /\ call.src # "types" => Len(outlinePoints) = 2 * n
               /\ Len(outlinePoints) >= 2 * (n - 1)
               /\ Len(outlinePoints) >= 3
               /\ \A i \in 1 .. n :
                     /\ CenterOf(outlinePoints[i]) = FontSpace(i, call.options.slant)
                     /\ OppositeAround(outlinePoints[i],
                                       outlinePoints[2 * n + CapPoints + 1 - i], i)
               /\ CapAround(n + 1, CapPoints, n, Rat(-1, 4), Rat(1, 4))
               /\ CapAround(2 * n + CapPoints + 1, CapPoints, 1, Rat(1, 4), Rat(3, 4))

\* three points, not all of them close to each other, handed to the round-cap
\* builder: 20 points
C18_Witness ==
    /\ Outlined
    /\ call.src = "types"
    /\ Len(StrokePoints) = 3
    /\ StrokePoints[1] # StrokePoints[3]
    /\ StrokePoints[1] # StrokePoints[2]
    /\ Len(outlinePoints) = 20

\* the ring the builder of the call returns for the same stroke and thickness with
\* slant 0
UnslantedRing == BuilderRing(call.src, strokes[1], [call.options EXCEPT !.slant = R(0)])

\* ring point q is ring point q0 with its x increased by s times its own y
SlantedBy(q, q0, s) ==
    /\ q.y = q0.y
    /\ q.x = FAdd(q0.x, FScale(q0.y, s))

\* C19 as stated: for every stroke (dot or line) and thickness, each point of the
\* ring built with slant s is the corresponding point of the ring built with slant
\* 0 with its x increased by s times its own font-space y and its y unchanged
C19_AsStated ==
    Outlined
        => /\ Len(outlinePoints) = Len(UnslantedRing)
           /\ \A i \in 1 .. Len(outlinePoints) :
                 SlantedBy(outlinePoints[i], UnslantedRing[i], call.options.slant)

\* a tap at (0, 0) handed to the diamond builder with slant 1/4: the corner
\* (0, 760) of the upright diamond is moved to x = 200, the shift of the centre
\* (800 / 4), and not to 760 / 4 = 190
C19_Failing ==
    /\ Outlined
    /\ call.src = "svgHelpers"
    /\ call.options.slant = Rat(1, 4)
    /\ StrokePoints = <<Point(R(0), R(0))>>
    /\ UnslantedRing[1].x = FConst(R(0))
    /\ UnslantedRing[1].y = FConst(R(760))
    /\ outlinePoints[1].x = FConst(R(200))
    /\ outlinePoints[1].y = FConst(R(760))

-----------------------------------------------------------------------------
(* C20: zero rings and one ring in the outline merger *)

\* the rings handed to the union for character c: the polygons of types.ts 468-475,
\* the strokeShapes of svgHelpers.ts 658-663
RingsOfGlyph(c) ==
    IF call.src = "types"
    THEN polygonsOf(normalizeStrokes(Lookup(fontMap, c).strokes, c,
                                     calculateAvgScale(fontMap)).strokes,
                    call.options.thickness, call.options.slant)
    ELSE strokeShapesOf(normalizeStrokesSvg(Lookup(fontMap, c).strokes, c,
                                            calculateAvgScale(fontMap)).strokes,
                        call.options.thickness, call.options.slant,
                        call.fail.char = c /\ call.fail.step = "expand")

\* character c is one the called generateFont builds a glyph for
BuildsGlyph(c) ==
    /\ Drawn(c)
    /\ call.src = "svgHelpers" => c \in Range(CHAR_SET)

\* no step of another glyph throws in the geometry library
OnlyGlyphAtRisk(c) == call.fail = NoFail \/ call.fail.char = c

\* C20 as stated: a glyph with no ring or with one ring needs no union, so that
\* generateFont returns the font whatever the union would do, and the glyph's
\* outline is the empty list, or the one ring unchanged
C20_AsStated ==
    (pc = "returned" /\ call.fn = "generateFont")
        => \A c \in KeyUniverse :
              (BuildsGlyph(c) /\ OnlyGlyphAtRisk(c) /\ Len(RingsOfGlyph(c)) <= 1)
                  => /\ out.status = "ok"
                     /\ \E k \in 1 .. Len(GlyphList) :
                           /\ GlyphList[k].name = c
                           /\ GlyphList[k].path = RingsOfGlyph(c)

\* 'A' is one tap, so one ring of 12 points: generateFont of types.ts hands it to
\* polygonClipping.union, which throws, and no font is returned
C20_Failing ==
    /\ pc = "returned"
    /\ call.fn = "generateFont"
    /\ call.src = "types"
    /\ fontMap = <<CharData("A", Tap)>>
    /\ Len(RingsOfGlyph("A")) = 1
    /\ RingsOfGlyph("A")[1].n = 12
    /\ call.fail = [char |-> "A", step |-> "union"]
    /\ out.status = "threw"

-----------------------------------------------------------------------------
(* generateFont of src/utils/svgHelpers.ts 1503-1585: the canvas-scaled variant *)

\* alignStrokes (svgHelpers.ts 1357-1385): the content is centred on canvasWidth / 2
alignOffsetX(pts, canvasWidth) ==
    RSub(Rat(canvasWidth, 2),
         RAdd(MinOf(Xs(pts)), RDiv(RSub(MaxOf(Xs(pts)), MinOf(Xs(pts))), R(2))))

alignPoints(ss, offX) ==
    [k \in 1 .. Len(ss) |->
        Stroke([i \in 1 .. Len(ss[k].points) |->
                   Point(RAdd(ss[k].points[i].x, offX), ss[k].points[i].y)])]

alignStrokes(ss, canvasWidth) ==
    IF Len(ss) = 0 \/ AllPoints(ss) = <<>> THEN ss
    ELSE alignPoints(ss, alignOffsetX(AllPoints(ss), canvasWidth))

\* const scale = unitsPerEm / data.canvasHeight   (svgHelpers.ts 1537)
canvasScale(data) == RDiv(R(EM_HEIGHT), R(data.canvasHeight))

\* transform(pt, 0, 0) of createOutlineFromStroke (svgHelpers.ts 1431-1443): scale,
\* flip y at the ascender, then slant
transformScaled(pt, scale, ascender, slant) ==
    LET y_otf == RSub(R(ascender), RMul(pt.y, scale))
    IN  Point(RAdd(RMul(pt.x, scale), RMul(y_otf, slant)), y_otf)

\* the path of one stroke (svgHelpers.ts 1420-1500): a diamond of 4 points of radius
\* thickness * scale for a dot, else the left and the right offsets of every point at
\* thickness * scale / 2
createOutlineScaled(stroke, scale, ascender, thickness, slant) ==
    [n |-> IF Len(stroke.points) = 0 THEN 0
           ELSE IF IsDot(stroke.points) THEN 4 ELSE 2 * Len(stroke.points),
     r |-> IF Len(stroke.points) = 0 THEN R(0)
           ELSE IF IsDot(stroke.points) THEN RMul(R(thickness), scale)
           ELSE RDiv(RMul(R(thickness), scale), R(2)),
     center |-> IF Len(stroke.points) # 0 /\ IsDot(stroke.points)
                THEN <<transformScaled(stroke.points[1], scale, ascender, slant)>>
                ELSE [i \in 1 .. Len(stroke.points) |->
                         transformScaled(stroke.points[i], scale, ascender, slant)]]

\* alignedStrokes.forEach(stroke => glyphPath.extend(outline)): an empty outline adds
\* nothing to the path
pathOfScaled(aligned, scale, thickness, slant) ==
    SelectSeq([k \in 1 .. Len(aligned) |->
                  createOutlineScaled(aligned[k], scale, 800, thickness, slant)],
              LAMBDA outline : outline.n > 0)

\* Math.max(data.canvasWidth * scale * 0.75, 200) + letterSpacing * 10
finalWidthScaled(data, scale, letterSpacing) ==
    RAdd(RMax(RMul(RMul(R(data.canvasWidth), scale), Rat(3, 4)), R(200)),
         R(letterSpacing * 10))

\* the glyph pushed for one character of CHAR_SET (svgHelpers.ts 1526-1563): drawn
\* from the record, or an empty one of width 300 when there is no record with strokes
glyphOfCanvas(c, data, letterSpacing, options) ==
    IF Len(data.strokes) > 0
    THEN Glyph(c, CharCode(c), finalWidthScaled(data, canvasScale(data), letterSpacing),
               pathOfScaled(alignStrokes(smoothStrokes(data.strokes), data.canvasWidth),
                            canvasScale(data), options.thickness, options.slant))
    ELSE Glyph(c, CharCode(c), R(300), <<>>)

\* space is pushed last: no character of CHAR_SET has unicode 32 (svgHelpers.ts 1565)
spaceCanvas(letterSpacing) == Glyph("space", 32, R(300 + letterSpacing * 10), <<>>)

generateFontCanvas(fm, letterSpacing, options) ==
    Returned(<<Font(options.styleName,
                    <<notdefSvg>>
                    \o [k \in 1 .. Len(CHAR_SET) |->
                           glyphOfCanvas(CHAR_SET[k], Lookup(fm, CHAR_SET[k]),
                                         letterSpacing, options)]
                    \o <<spaceCanvas(letterSpacing)>>)>>)

\* the styles of this variant: thickness 12 (the default), 24 for Bold, slant 0.25
\* for Italic (svgHelpers.ts 1507, 1591-1614)
CanvasStyleOptions ==
    {Options(12, R(0), "Regular"), Options(24, R(0), "Bold"), Options(12, Rat(1, 4), "Italic")}

-----------------------------------------------------------------------------
(* The font map with records of any canvas size, and the three generateFont *)

\* a record as it is stored: handleSaveStrokes stores the canvas size it is handed
\* (App.tsx 141-150), and JSON.parse(localStorage) gives back whatever was stored
CharDataCanvas(c, ss, w, h) ==
    [char |-> c, strokes |-> ss, canvasWidth |-> w, canvasHeight |-> h]

CanvasSizes == {0, 300}
CanvasDrawings == {Cleared, Tap, Diag}

CanvasRecords(c) ==
    {CharDataCanvas(c, d, w, h) : d \in CanvasDrawings, w \in CanvasSizes, h \in CanvasSizes}

CanvasFontMaps ==
    {<<>>}
    \cup {<<r>> : r \in CanvasRecords("A") \cup CanvasRecords("a")}
    \cup (IF MaxGlyphs >= 2
          THEN {<<r, q>> : r \in CanvasRecords("A"), q \in CanvasRecords("a")}
          ELSE {})

InitCanvas ==
    /\ fontMap \in CanvasFontMaps
    /\ out = NoOut
    /\ call = NoCall
    /\ pc = "idle"
    /\ strokes = NoStrokes
    /\ char = "A"
    /\ avgScale = R(1)
    /\ smoothed = NoStrokes
    /\ norm = NoNorm
    /\ outlinePoints = NoRing
    /\ fontName = <<>>
    /\ files = <<>>
    /\ strokeShapes = <<>>
    /\ united = NoUnion
    /\ unifiedPath = NoUnion
    /\ isDrawing = FALSE
    /\ currentStroke = <<>>

\* generateFont of svgHelpers.ts 1503-1585 reads the map and writes none of it
CallGenerateFontCanvas ==
    /\ pc = "idle"
    /\ \E ls \in LetterSpacings, o \in CanvasStyleOptions :
          /\ out' = generateFontCanvas(fontMap, ls, o)
          /\ call' = [fn |-> "generateFont", src |-> "canvas", letterSpacing |-> ls,
                      options |-> o, fail |-> NoFail]
    /\ pc' = "returned"
    /\ UNCHANGED <<fontMap, strokes, char, avgScale, smoothed, norm, outlinePoints, fontName,
                   files, strokeShapes, united, unifiedPath, isDrawing, currentStroke>>

NextCanvas ==
    \/ CallGenerateFontTypes
    \/ CallGenerateFontSvg
    \/ CallGenerateFontCanvas
    \/ downloadFile

SpecCanvas == InitCanvas /\ [][NextCanvas]_vars

-----------------------------------------------------------------------------
(* C22: a record with a canvas of size zero *)

\* character c has a drawn record whose canvas has no width or no height
ZeroCanvas(c) ==
    /\ Drawn(c)
    /\ Lookup(fontMap, c).canvasWidth = 0 \/ Lookup(fontMap, c).canvasHeight = 0

FiniteOutline(outline) ==
    /\ IsFinite(outline.r)
    /\ \A i \in 1 .. Len(outline.center) :
          IsFinite(outline.center[i].x) /\ IsFinite(outline.center[i].y)

FiniteGlyph(g) ==
    /\ IsFinite(g.advanceWidth)
    /\ \A j \in 1 .. Len(g.path) : FiniteOutline(g.path[j])

\* glyph g is what a character without data gets: the empty glyph of width 300
Placeholder(g) == g.path = <<>> /\ g.advanceWidth = R(300)

\* C22 as stated: a drawn record with a zero-size canvas counts as no data: the font
\* is returned, every number in it is finite, and the character has no glyph (or the
\* empty glyph the generator gives a character without data)
C22_AsStated ==
    (pc = "returned" /\ call.fn = "generateFont" /\ call.fail = NoFail)
        => /\ out.status = "ok"
           /\ \A k \in 1 .. Len(GlyphList) :
                 /\ FiniteGlyph(GlyphList[k])
                 /\ (GlyphList[k].name \in Range(CHAR_SET) /\ ZeroCanvas(GlyphList[k].name))
                        => Placeholder(GlyphList[k])

\* 'A' drawn as one line on a canvas of width 300 and height 0: scale is 1000 / 0,
\* and the glyph of 'A' has an infinite advance width and a NaN coordinate
C22_Failing ==
    /\ pc = "returned"
    /\ call.fn = "generateFont"
    /\ call.src = "canvas"
    /\ fontMap = <<CharDataCanvas("A", Diag, 300, 0)>>
    /\ out.status = "ok"
    /\ GlyphList[2].name = "A"
    /\ GlyphList[2].advanceWidth = Rat(1, 0)
    /\ ~IsFinite(GlyphList[2].path[1].center[1].y)

-----------------------------------------------------------------------------
(* centerStrokes and centerAllGlyphs: src/utils/svgHelpers.ts 347-388 (the same text *)
(* as src/types.ts 64-110) and src/App.tsx 167-183                               *)

DESCENDERS == {"g", "j", "p", "q", "y", ",", "f"}

RAbs(a) == IF a[1] < 0 THEN <<-a[1], a[2]>> ELSE a

\* targetCenterX - contentCenterX
centerOffsetX(pts, width) ==
    RSub(Rat(width, 2),
         RAdd(MinOf(Xs(pts)), RDiv(RSub(MaxOf(Xs(pts)), MinOf(Xs(pts))), R(2))))

\* targetCenterY - contentCenterY: the target is height * 0.62 for a descender
centerOffsetY(pts, height, c) ==
    RSub(IF c \in DESCENDERS THEN RMul(R(height), Rat(62, 100)) ELSE Rat(height, 2),
         RAdd(MinOf(Ys(pts)), RDiv(RSub(MaxOf(Ys(pts)), MinOf(Ys(pts))), R(2))))

shiftStrokes(ss, offX, offY) ==
    IF RLt(RAbs(offX), R(1)) /\ RLt(RAbs(offY), R(1)) THEN ss
    ELSE [k \in 1 .. Len(ss) |->
             [ss[k] EXCEPT !.points =
                 [i \in 1 .. Len(ss[k].points) |->
                     Point(RAdd(ss[k].points[i].x, offX), RAdd(ss[k].points[i].y, offY))]]]

centerStrokes(inputStrokes, width, height, c) ==
    IF Len(inputStrokes) = 0 \/ AllPoints(inputStrokes) = <<>> THEN inputStrokes
    ELSE shiftStrokes(inputStrokes,
                      centerOffsetX(AllPoints(inputStrokes), width),
                      centerOffsetY(AllPoints(inputStrokes), height, c))

\* the updater centerAllGlyphs hands to setFontMap, applied to the state it is given
centerAllGlyphs(prev) ==
    [i \in 1 .. Len(prev) |->
        IF Len(prev[i].strokes) > 0
        THEN [prev[i] EXCEPT !.strokes =
                 centerStrokes(prev[i].strokes, prev[i].canvasWidth, prev[i].canvasHeight,
                               prev[i].char)]
        ELSE prev[i]]

-----------------------------------------------------------------------------
(* The names of the exported files: src/App.tsx 233-261 *)

\* a string is the sequence of its characters
MyHandwriting == <<"m", "y", "h", "a", "n", "d", "w", "r", "i", "t", "i", "n", "g">>
Ttf == <<".", "t", "t", "f">>
RegularTtf == <<"-", "R", "e", "g", "u", "l", "a", "r">> \o Ttf
BoldTtf == <<"-", "B", "o", "l", "d">> \o Ttf
ItalicTtf == <<"-", "I", "t", "a", "l", "i", "c">> \o Ttf
FamilyZip == <<"_", "F", "a", "m", "i", "l", "y", ".", "z", "i", "p">>

\* the characters /[^a-z0-9]/gi does not match
IsAlnum(ch) == ch \in Range(UpperCase) \cup Range(LowerCase) \cup Range(Digits)

\* String.prototype.trim: white space is removed at both ends
RECURSIVE trimStart(_)
trimStart(str) ==
    IF str # <<>> /\ Head(str) = " " THEN trimStart(Tail(str)) ELSE str

RECURSIVE trimEnd(_)
trimEnd(str) ==
    IF str # <<>> /\ str[Len(str)] = " "
    THEN trimEnd(SubSeq(str, 1, Len(str) - 1))
    ELSE str

trim(str) == trimEnd(trimStart(str))

\* fontName.trim() || "myhandwriting"
getExportName(name) == IF trim(name) = <<>> THEN MyHandwriting ELSE trim(name)

\* the mutant: the characters that do not match are removed
replaceRemoving(str) == SelectSeq(str, IsAlnum)

\* .replace(/[^a-z0-9]/gi, '_')
replace(str) == [i \in 1 .. Len(str) |-> IF IsAlnum(str[i]) THEN str[i] ELSE "_"]

safeName(name) == replace(getExportName(name))

\* one file of an export: its name, the options generateFont was called with, the font
Entry(name, options, font) == [name |-> name, options |-> options, font |-> font]

\* a download: the name given to the browser, the folder of the zip (none for a
\* single font) and the files it holds
Download(name, folder, entries) == [name |-> name, folder |-> folder, entries |-> entries]

\* folder.file(`${fontName}-Regular.ttf`, regularBuffer) and the two others
\* (types.ts 523-545, svgHelpers.ts 773-795)
familyEntries(name, fonts) ==
    <<Entry(name \o RegularTtf, Regular, fonts[1]),
      Entry(name \o BoldTtf, Bold, fonts[2]),
      Entry(name \o ItalicTtf, Italic, fonts[3])>>

-----------------------------------------------------------------------------
(* The export handlers of src/App.tsx 237-261 *)

generateFontOf(src, fm, letterSpacing, options, fail) ==
    IF src = "types" THEN generateFontTypes(fm, letterSpacing, options, fail)
    ELSE generateFontSvg(fm, letterSpacing, options, fail)

generateFontFamilyZipOf(src, fm, letterSpacing, fail) ==
    IF src = "types" THEN generateFontFamilyZipTypes(fm, letterSpacing, fail)
    ELSE generateFontFamilyZipSvg(fm, letterSpacing, fail)

Sources == {"types", "svgHelpers"}

\* the arguments of an export: the handler, the safe name and the fontMap of the render
\* the handler was created in
ExportCall(fn, src, name, fm, fail) ==
    [fn |-> fn, src |-> src, letterSpacing |-> 0, options |-> Regular, fail |-> fail,
     fontName |-> name, fontMap |-> fm]

\* handleExport: centerAllGlyphs() queues its update, generateFont reads the fontMap of
\* this render and the buffer is downloaded as safeName.ttf; the queued update is
\* applied when the handler has returned (also when generateFont threw)
handleExport ==
    /\ pc = "idle"
    /\ \E src \in Sources, f \in FailChoices(fontMap, {"union"}) :
          /\ out' = generateFontOf(src, fontMap, 0, Regular, f)
          /\ call' = ExportCall("handleExport", src, safeName(fontName), fontMap, f)
          /\ files' = IF out'.status = "ok"
                      THEN <<Download(safeName(fontName) \o Ttf, <<>>,
                                      <<Entry(safeName(fontName) \o Ttf, Regular,
                                              out'.fonts[1])>>)>>
                      ELSE <<>>
    /\ fontMap' = centerAllGlyphs(fontMap)
    /\ pc' = "exported"
    /\ UNCHANGED <<strokes, char, avgScale, smoothed, norm, outlinePoints, fontName, strokeShapes,
                   united, unifiedPath, isDrawing, currentStroke>>

\* handleExportFamily up to its await: the three fonts are generated before
\* generateFontFamilyZip first yields, from the fontMap of this render
handleExportFamily ==
    /\ pc = "idle"
    /\ \E src \in Sources, f \in FailChoices(fontMap, {"union"}) :
          /\ out' = generateFontFamilyZipOf(src, fontMap, 0, f)
          /\ call' = ExportCall("handleExportFamily", src, safeName(fontName), fontMap, f)
          /\ pc' = IF out'.status = "ok" THEN "zipping" ELSE "exported"
    /\ fontMap' = centerAllGlyphs(fontMap)
    /\ files' = <<>>
    /\ UNCHANGED <<strokes, char, avgScale, smoothed, norm, outlinePoints, fontName, strokeShapes,
                   united, unifiedPath, isDrawing, currentStroke>>

\* the mutant: the fonts are generated when the zip is ready, from the fontMap of then
zipResolvedRereading ==
    /\ pc = "zipping"
    /\ files' = <<Download(call.fontName \o FamilyZip, call.fontName,
                           familyEntries(call.fontName,
                               generateFontFamilyZipOf(call.src, fontMap, 0, NoFail).fonts))>>
    /\ pc' = "exported"
    /\ UNCHANGED <<fontMap, out, call, strokes, char, avgScale, smoothed, norm,
                   outlinePoints, fontName, strokeShapes, united, unifiedPath, isDrawing,
                   currentStroke>>

\* zip.generateAsync has resolved: the zip is downloaded as safeName_Family.zip
zipResolved ==
    /\ pc = "zipping"
    /\ files' = <<Download(call.fontName \o FamilyZip, call.fontName,
                           familyEntries(call.fontName, out.fonts))>>
    /\ pc' = "exported"
    /\ UNCHANGED <<fontMap, out, call, strokes, char, avgScale, smoothed, norm,
                   outlinePoints, fontName, strokeShapes, united, unifiedPath, isDrawing,
                   currentStroke>>

\* setIsExportModalOpen(false): the export is over
closeExportModal ==
    /\ pc = "exported"
    /\ out' = NoOut
    /\ call' = NoCall
    /\ files' = <<>>
    /\ pc' = "idle"
    /\ UNCHANGED <<fontMap, strokes, char, avgScale, smoothed, norm, outlinePoints, fontName,
                   strokeShapes, united, unifiedPath, isDrawing, currentStroke>>

\* handleNameChange: setFontName(e.target.value)   (App.tsx 263-266)
handleNameChange(value) ==
    /\ pc \in {"idle", "zipping"}
    /\ fontName' = value
    /\ UNCHANGED <<fontMap, out, call, strokes, char, avgScale, smoothed, norm,
                   outlinePoints, files, pc, strokeShapes, united, unifiedPath, isDrawing,
                   currentStroke>>

\* the names typed: upper case, blanks and a character the pattern replaces, and one
\* name of a lower-case letter and a digit
NameAlphabet == {"Z", " ", "-"}
Names == SeqsUpTo(NameAlphabet, MaxNameLen) \cup {<<"a", "7">>}

ExportFontMaps == {<<>>, <<CharData("A", Hook)>>}

InitExport ==
    /\ fontMap \in ExportFontMaps
    /\ out = NoOut
    /\ call = NoCall
    /\ pc = "idle"
    /\ strokes = NoStrokes
    /\ char = "A"
    /\ avgScale = R(1)
    /\ smoothed = NoStrokes
    /\ norm = NoNorm
    /\ outlinePoints = NoRing
    /\ fontName = <<>>
    /\ files = <<>>
    /\ strokeShapes = <<>>
    /\ united = NoUnion
    /\ unifiedPath = NoUnion
    /\ isDrawing = FALSE
    /\ currentStroke = <<>>

NextExport ==
    \/ \E value \in Names : handleNameChange(value)
    \/ handleExport
    \/ handleExportFamily
    \/ zipResolved
    \/ closeExportModal

SpecExport == InitExport /\ [][NextExport]_vars

-----------------------------------------------------------------------------
(* C23: the names and the styles of the exported files *)

\* name is typed without the blanks at its two ends, with "_" at the place of every
\* character that is neither a letter nor a digit; "myhandwriting" when nothing is left
DerivedFrom(name, typed) ==
    \E a, b \in 0 .. Len(typed) :
        /\ a + b <= Len(typed)
        /\ \A i \in 1 .. a : typed[i] = " "
        /\ \A i \in Len(typed) - b + 1 .. Len(typed) : typed[i] = " "
        /\ IF a + b = Len(typed)
           THEN name = MyHandwriting
           ELSE /\ typed[a + 1] # " "
                /\ typed[Len(typed) - b] # " "
                /\ Len(name) = Len(typed) - a - b
                /\ \A i \in 1 .. Len(name) :
                      name[i] = IF typed[a + i] \in Range(UpperCase) \cup Range(LowerCase)
                                                    \cup Range(Digits)
                                THEN typed[a + i] ELSE "_"

\* entry e is called base + suffix and holds the font generateFont gives for the
\* exported map with this thickness, slant and style name
StyledEntry(e, base, suffix, thickness, slant, styleName) ==
    /\ e.name = base \o suffix
    /\ e.options.thickness = thickness
    /\ e.options.slant = slant
    /\ <<e.font>> = generateFontOf(call.src, call.fontMap, 0,
                                   Options(thickness, slant, styleName), call.fail).fonts

\* the download of the export that has finished
ExportedFiles(base) ==
    /\ Len(files) = 1
    /\ IF call.fn = "handleExport"
       THEN /\ files[1].name = base \o Ttf
            /\ Len(files[1].entries) = 1
            /\ StyledEntry(files[1].entries[1], base, Ttf, 50, R(0), "Regular")
       ELSE /\ files[1].name = base \o FamilyZip
            /\ files[1].folder = base
            /\ Len(files[1].entries) = 3
            /\ StyledEntry(files[1].entries[1], base, RegularTtf, 50, R(0), "Regular")
            /\ StyledEntry(files[1].entries[2], base, BoldTtf, 90, R(0), "Bold")
            /\ StyledEntry(files[1].entries[3], base, ItalicTtf, 50, Rat(1, 4), "Italic")

\* C23: the name an export uses is the font name as it is typed when the export starts,
\* trimmed, every character that is not a letter or a digit replaced by "_", and
\* "myhandwriting" for an empty or blank name; the single export downloads name.ttf,
\* the family export name_Family.zip holding exactly name-Regular.ttf, name-Bold.ttf and
\* name-Italic.ttf, generated with (thickness, slant) = (50, 0), (90, 0), (50, 0.25)
C23_ExportNames ==
    /\ [](files # <<>> => ExportedFiles(call.fontName))
    /\ [][(pc = "idle" /\ pc' # "idle") => DerivedFrom(call'.fontName, fontName)]_vars

\* " -Z" was typed: the family zip is _Z_Family.zip and its Bold file _Z-Bold.ttf,
\* a font of thickness 90
C23_Witness ==
    /\ pc = "exported"
    /\ call.fn = "handleExportFamily"
    /\ call.fontName = <<"_", "Z">>
    /\ fontName = <<" ", "-", "Z">>
    /\ Len(files) = 1
    /\ files[1].name = <<"_", "Z">> \o FamilyZip
    /\ files[1].entries[2].name = <<"_", "Z", "-", "B", "o", "l", "d", ".", "t", "t", "f">>
    /\ files[1].entries[2].options.thickness = 90
    /\ files[1].entries[2].font.styleName = "Bold"

-----------------------------------------------------------------------------
(* The harness for smoothStrokes of src/utils/svgHelpers.ts 309-345 *)

\* points on one line, 3 apart: their means are 1 apart, around the distance 2 of the
\* filter
DecimateXs == {0, 3, 6}
DecimatePoints == {Point(R(x), R(0)) : x \in DecimateXs}

DecimateInputs ==
    {<<Stroke(s)>> : s \in SeqsUpTo(DecimatePoints, MaxSmoothPts)}
    \cup {<<Stroke(s), Stroke(t)>> : s \in SeqsOfLen(DecimatePoints, 3),
                                     t \in SeqsUpTo(DecimatePoints, 1)}

InitDecimate ==
    /\ strokes \in DecimateInputs
    /\ smoothed = NoStrokes
    /\ pc = "start"
    /\ fontMap = <<>>
    /\ out = NoOut
    /\ call = NoCall
    /\ char = "A"
    /\ avgScale = R(1)
    /\ norm = NoNorm
    /\ outlinePoints = NoRing
    /\ fontName = <<>>
    /\ files = <<>>
    /\ strokeShapes = <<>>
    /\ united = NoUnion
    /\ unifiedPath = NoUnion
    /\ isDrawing = FALSE
    /\ currentStroke = <<>>

CallSmoothStrokesSvg ==
    /\ pc = "start"
    /\ smoothed' = smoothStrokesSvg(strokes)
    /\ pc' = "decimated"
    /\ UNCHANGED <<fontMap, out, call, strokes, char, avgScale, norm, outlinePoints,
                   fontName, files, strokeShapes, united, unifiedPath, isDrawing,
                   currentStroke>>

NextDecimate == CallSmoothStrokesSvg

SpecDecimate == InitDecimate /\ [][NextDecimate]_vars

-----------------------------------------------------------------------------
(* C24: the distance filter of the decimating smoother *)

SqDist(a, b) ==
    RAdd(RMul(RSub(a.x, b.x), RSub(a.x, b.x)), RMul(RSub(a.y, b.y), RSub(a.y, b.y)))

\* the points the claim keeps of the smoothed points q from index i on, kept holding
\* those kept so far: the final point always, an interior point unless its squared
\* distance to the last kept point is below 4
RECURSIVE KeptAsClaimed(_, _, _)
KeptAsClaimed(q, kept, i) ==
    IF i > Len(q) THEN kept
    ELSE IF i = Len(q) \/ ~RLt(SqDist(q[i], kept[Len(kept)]), R(4))
         THEN KeptAsClaimed(q, Append(kept, q[i]), i + 1)
         ELSE KeptAsClaimed(q, kept, i + 1)

\* C24 as stated: of the smoothed points of a stroke of 3 points or more the first and
\* the final one are kept, and an interior one is dropped exactly when its squared
\* distance to the last kept point is below 4
C24_AsStated ==
    pc = "decimated" =>
        \A k \in 1 .. Len(strokes) :
            Len(strokes[k].points) >= 3
                => smoothed[k].points =
                       KeptAsClaimed(smoothStroke(strokes[k]).points,
                                     <<smoothStroke(strokes[k]).points[1]>>, 2)

\* x = 0, 3, 3 is smoothed to 0, 2, 3: the interior point is at squared distance 4
\* from the first, which is not below 4, and it is dropped
C24_Failing ==
    /\ pc = "decimated"
    /\ strokes = <<Stroke(<<Point(R(0), R(0)), Point(R(3), R(0)), Point(R(3), R(0))>>)>>
    /\ smoothStroke(strokes[1]).points[2] = Point(R(2), R(0))
    /\ smoothed = <<Stroke(<<Point(R(0), R(0)), Point(R(3), R(0))>>)>>

-----------------------------------------------------------------------------
(* The harness for the outline of a normalized stroke: points above, on and below *)
(* the baseline y = 800 of the drawing space                                     *)

FlipXs == {50, 300}
FlipYs == {0, 800, 1000}
FlipPointSet == {Point(R(x), R(y)) : x \in FlipXs, y \in FlipYs}
FlipStrokes == {Stroke(s) : s \in SeqsUpTo(FlipPointSet, MaxPts)}

InitFlip ==
    /\ strokes \in {<<s>> : s \in FlipStrokes}
    /\ pc = "start"
    /\ fontMap = <<>>
    /\ out = NoOut
    /\ call = NoCall
    /\ char = "A"
    /\ avgScale = R(1)
    /\ smoothed = NoStrokes
    /\ norm = NoNorm
    /\ outlinePoints = NoRing
    /\ fontName = <<>>
    /\ files = <<>>
    /\ strokeShapes = <<>>
    /\ united = NoUnion
    /\ unifiedPath = NoUnion
    /\ isDrawing = FALSE
    /\ currentStroke = <<>>

NextFlip == CallGetStrokeOutlinePointsTypes

SpecFlip == InitFlip /\ [][NextFlip]_vars

-----------------------------------------------------------------------------
(* C25: one flip at the ascender, the slant after it *)

\* the point half way between ring points a and b
Midpoint(a, b) ==
    <<FScale(FAdd(a.x, b.x), Rat(1, 2)), FScale(FAdd(a.y, b.y), Rat(1, 2))>>

\* the left and the right offset of stroke point i in the ring of n points and two
\* caps of 7
LeftOf(i) == outlinePoints[i]
RightOf(i) == outlinePoints[2 * Len(StrokePoints) + 7 + 1 - i]

\* C25: in the ring of a stroke the point half way between the left and the right
\* offset of the centerline point (x, y) is (x + (800 - y) * slant, 800 - y): a point
\* with y = 800 gets font y = 0 and no shift by the slant, and of two points the one
\* with the larger drawing y has the smaller font y
C25_FlipThenSlant ==
    (Outlined /\ call.src = "types" /\ Len(StrokePoints) >= 2 /\ ~DotStroke)
        => \A i \in 1 .. Len(StrokePoints) :
              LET p == StrokePoints[i]
                  mid == Midpoint(LeftOf(i), RightOf(i))
              IN  /\ mid[1] = FConst(RAdd(p.x, RMul(RSub(R(800), p.y), call.options.slant)))
                  /\ mid[2] = FConst(RSub(R(800), p.y))
                  /\ p.y = R(800) => mid = <<FConst(p.x), FConst(R(0))>>
                  /\ \A j \in 1 .. Len(StrokePoints) :
                        RLt(p.y, StrokePoints[j].y)
                            => RLt(Midpoint(LeftOf(j), RightOf(j))[2][1], mid[2][1])

\* an Italic stroke from the top of the canvas over the baseline to below it: font
\* y = 800, 0 and -200, shifted by 200, 0 and -50
C25_Witness ==
    /\ Outlined
    /\ call.src = "types"
    /\ call.options.slant = Rat(1, 4)
    /\ StrokePoints = <<Point(R(50), R(0)), Point(R(300), R(800)), Point(R(300), R(1000))>>
    /\ Midpoint(LeftOf(1), RightOf(1)) = <<FConst(R(250)), FConst(R(800))>>
    /\ Midpoint(LeftOf(2), RightOf(2)) = <<FConst(R(300)), FConst(R(0))>>
    /\ Midpoint(LeftOf(3), RightOf(3)) = <<FConst(R(250)), FConst(R(-200))>>

-----------------------------------------------------------------------------
(* recursiveUnite (src/utils/svgHelpers.ts 540-556) and the accumulating union of  *)
(* generateFont (src/utils/svgHelpers.ts 1145-1165)                                *)
(*                                                                               *)
(* A shape is the region it covers, a set of cells of the plane; a.unite(b) covers *)
(* the cells of both. A result is the shape, or "null", with the number of unite  *)
(* calls made for it; null is the result that is no shape.                       *)

Cells == {1, 2, 3}
Shapes == (SUBSET Cells) \ {{}}

Unite(shape, calls) == [shape |-> shape, calls |-> calls, isNull |-> FALSE]

\* null: no shape at all
Null == NoUnion

\* left.unite(right, { insert: false })
unite(left, right) == left \cup right

\* the mutant: the right half starts one shape late
rightHalfSkipping(shapeList, mid) == SubSeq(shapeList, mid + 2, Len(shapeList))

\* shapes.slice(0, mid), shapes.slice(mid)
leftHalf(shapeList, mid) == SubSeq(shapeList, 1, mid)
rightHalf(shapeList, mid) == SubSeq(shapeList, mid + 1, Len(shapeList))

\* if (left && right) return left.unite(right); return left || right;
uniteHalves(left, right) ==
    IF ~left.isNull /\ ~right.isNull
    THEN Unite(unite(left.shape, right.shape), left.calls + right.calls + 1)
    ELSE IF ~left.isNull THEN left ELSE right

RECURSIVE recursiveUnite(_)
recursiveUnite(shapeList) ==
    IF Len(shapeList) = 0 THEN Null
    ELSE IF Len(shapeList) = 1 THEN Unite(shapeList[1], 0)
    ELSE uniteHalves(recursiveUnite(leftHalf(shapeList, Len(shapeList) \div 2)),
                     recursiveUnite(rightHalf(shapeList, Len(shapeList) \div 2)))

\* if (!unifiedPath) unifiedPath = p; else unifiedPath = unifiedPath.unite(p);
accumulate(acc, p) ==
    IF acc.isNull THEN Unite(p, 0)
    ELSE Unite(unite(acc.shape, p), acc.calls + 1)

\* normalizedStrokes.forEach(...) from shape i on
RECURSIVE accumulateFrom(_, _, _)
accumulateFrom(shapeList, acc, i) ==
    IF i > Len(shapeList) THEN acc
    ELSE accumulateFrom(shapeList, accumulate(acc, shapeList[i]), i + 1)

InitUnite ==
    /\ strokeShapes \in SeqsUpTo(Shapes, MaxShapes)
    /\ united = NoUnion
    /\ unifiedPath = NoUnion
    /\ pc = "start"
    /\ fontMap = <<>>
    /\ out = NoOut
    /\ call = NoCall
    /\ strokes = NoStrokes
    /\ char = "A"
    /\ avgScale = R(1)
    /\ smoothed = NoStrokes
    /\ norm = NoNorm
    /\ outlinePoints = NoRing
    /\ fontName = <<>>
    /\ files = <<>>
    /\ isDrawing = FALSE
    /\ currentStroke = <<>>

\* const glyphUnion = recursiveUnite(strokeShapes)   (svgHelpers.ts 666)
CallRecursiveUnite ==
    /\ pc = "start"
    /\ united' = recursiveUnite(strokeShapes)
    /\ pc' = "united"
    /\ UNCHANGED <<fontMap, out, call, strokes, char, avgScale, smoothed, norm,
                   outlinePoints, fontName, files, strokeShapes, unifiedPath, isDrawing,
                   currentStroke>>

\* the same shapes handed to the loop of svgHelpers.ts 1148-1165
CallAccumulate ==
    /\ pc = "united"
    /\ unifiedPath' = accumulateFrom(strokeShapes, Null, 1)
    /\ pc' = "accumulated"
    /\ UNCHANGED <<fontMap, out, call, strokes, char, avgScale, smoothed, norm,
                   outlinePoints, fontName, files, strokeShapes, united, isDrawing,
                   currentStroke>>

NextUnite == CallRecursiveUnite \/ CallAccumulate

SpecUnite == InitUnite /\ [][NextUnite]_vars

-----------------------------------------------------------------------------
(* C26 *)

\* C26: recursiveUnite gives null for no shape, the shape itself for one, and for
\* n >= 2 shapes a shape that covers exactly the cells of all of them, made with
\* exactly n - 1 unite calls; the accumulating loop covers the same region
C26_DivideAndConquerUnion ==
    /\ pc \in {"united", "accumulated"}
          => /\ Len(strokeShapes) = 0 => united = Null
             /\ Len(strokeShapes) = 1 => united = Unite(strokeShapes[1], 0)
             /\ Len(strokeShapes) >= 2
                   => /\ united.shape = UNION {strokeShapes[i] : i \in 1 .. Len(strokeShapes)}
                      /\ united.calls = Len(strokeShapes) - 1
    /\ pc = "accumulated" => unifiedPath.shape = united.shape

\* three shapes, the third not covered by the two others: two unite calls
C26_Witness ==
    /\ pc = "accumulated"
    /\ strokeShapes = <<{1}, {1, 2}, {3}>>
    /\ united = Unite({1, 2, 3}, 2)
    /\ unifiedPath = Unite({1, 2, 3}, 2)

-----------------------------------------------------------------------------
(* DrawingPad (src/components/DrawingPad.tsx 124-164); ZenCell keeps the same      *)
(* start / move / end in refs (src/unnamed/part_005 90-115)                       *)
(*                                                                               *)
(* strokes is the component's saved list, call.fn the handler that ran last. The  *)
(* record App stores on onSave is handed back as existingStrokes, so the effect   *)
(* of line 19-21 sets strokes to the list it already holds.                      *)

\* getPos(e): the pointer positions of the model
PadPositions == {Point(R(0), R(0)), Point(R(1), R(1))}

Handled(fn) == [NoCall EXCEPT !.fn = fn, !.src = "DrawingPad"]

\* setFontMap(prev => ({...prev, [currentChar]: {char, strokes, canvasWidth, canvasHeight}}))
onSave(fm, c, newStrokes) ==
    IF HasKey(fm, c)
    THEN [i \in 1 .. Len(fm) |-> IF fm[i].char = c THEN CharData(c, newStrokes) ELSE fm[i]]
    ELSE Append(fm, CharData(c, newStrokes))

\* the mutant: the last two strokes go
sliceTwoOff(list) == SubSeq(list, 1, Len(list) - 2)

\* strokes.slice(0, -1)
sliceLastOff(list) == SubSeq(list, 1, Len(list) - 1)

InitPad ==
    /\ fontMap = <<>>
    /\ strokes = NoStrokes
    /\ isDrawing = FALSE
    /\ currentStroke = <<>>
    /\ call = NoCall
    /\ pc = "idle"
    /\ out = NoOut
    /\ char = "A"
    /\ avgScale = R(1)
    /\ smoothed = NoStrokes
    /\ norm = NoNorm
    /\ outlinePoints = NoRing
    /\ fontName = <<>>
    /\ files = <<>>
    /\ strokeShapes = <<>>
    /\ united = NoUnion
    /\ unifiedPath = NoUnion

\* what no handler of the pad touches
PadUntouched ==
    UNCHANGED <<out, char, avgScale, smoothed, norm, outlinePoints, fontName, files,
                strokeShapes, united, unifiedPath, pc>>

\* setStrokes(newStrokes); onSave(newStrokes, width, height)
saveState(newStrokes) ==
    /\ strokes' = newStrokes
    /\ fontMap' = onSave(fontMap, char, newStrokes)

\* pointer down: mouse down, touch start
startDrawing(pos) ==
    /\ Len(strokes) < MaxStrokes
    /\ call' = Handled("startDrawing")
    /\ isDrawing' = TRUE
    /\ currentStroke' = <<pos>>
    /\ UNCHANGED <<strokes, fontMap>>
    /\ PadUntouched

\* pointer move
moveDrawing(pos) ==
    /\ Len(currentStroke) < MaxPadPts
    /\ call' = Handled("moveDrawing")
    /\ IF ~isDrawing
       THEN UNCHANGED <<currentStroke>>
       ELSE currentStroke' = Append(currentStroke, pos)
    /\ UNCHANGED <<isDrawing, strokes, fontMap>>
    /\ PadUntouched

\* pointer up, pointer leave: mouse up, mouse leave, touch end
stopDrawing ==
    /\ call' = Handled("stopDrawing")
    /\ IF ~isDrawing
       THEN UNCHANGED <<isDrawing, currentStroke, strokes, fontMap>>
       ELSE /\ isDrawing' = FALSE
            /\ IF Len(currentStroke) > 0
               THEN saveState(Append(strokes, Stroke(currentStroke)))
               ELSE UNCHANGED <<strokes, fontMap>>
            /\ currentStroke' = <<>>
    /\ PadUntouched

\* the Clear button, disabled while strokes is empty
clearCanvas ==
    /\ Len(strokes) # 0
    /\ call' = Handled("clearCanvas")
    /\ saveState(<<>>)
    /\ UNCHANGED <<isDrawing, currentStroke>>
    /\ PadUntouched

\* the Undo button, disabled while strokes is empty
undoLast ==
    /\ Len(strokes) # 0
    /\ call' = Handled("undoLast")
    /\ saveState(sliceLastOff(strokes))
    /\ UNCHANGED <<isDrawing, currentStroke>>
    /\ PadUntouched

NextPad ==
    \/ \E pos \in PadPositions : startDrawing(pos)
    \/ \E pos \in PadPositions : moveDrawing(pos)
    \/ stopDrawing
    \/ clearCanvas
    \/ undoLast

SpecPad == InitPad /\ [][NextPad]_vars

-----------------------------------------------------------------------------
(* C27 *)

EveryStrokeHasAPoint(list) == \A i \in 1 .. Len(list) : Len(list[i].points) >= 1

\* the list changes exactly as the handler that ran says
SavedAsHandled ==
    /\ Len(strokes') > Len(strokes)
          => /\ call'.fn = "stopDrawing"
             /\ isDrawing /\ ~isDrawing'
             /\ strokes' = Append(strokes, Stroke(currentStroke))
    /\ call'.fn \in {"startDrawing", "moveDrawing"} => strokes' = strokes
    /\ call'.fn = "stopDrawing" /\ ~isDrawing
          => strokes' = strokes /\ currentStroke' = currentStroke /\ ~isDrawing'
    /\ call'.fn = "moveDrawing" /\ ~isDrawing
          => currentStroke' = currentStroke /\ ~isDrawing'
    /\ call'.fn = "undoLast"
          => /\ Len(strokes') = Len(strokes) - 1
             /\ \A i \in 1 .. Len(strokes') : strokes'[i] = strokes[i]
    /\ call'.fn = "clearCanvas" => strokes' = <<>>

\* C27: after any sequence of pointer down, move, up, leave, undo and clear every saved
\* stroke has at least one point, in the pad's list and in the record App stores; the
\* list grows only by the stroke that an up or leave ends, an up or leave or a move
\* without a drawing in progress changes nothing, undo takes off exactly the last
\* stroke and clear empties the list
C27_PadStrokes ==
    /\ [](/\ EveryStrokeHasAPoint(strokes)
          /\ HasKey(fontMap, char) => Lookup(fontMap, char).strokes = strokes)
    /\ [][SavedAsHandled]_vars

\* a stroke of two points is saved, in the pad's list and in the record App stores
C27_Witness ==
    /\ call.fn = "stopDrawing"
    /\ ~isDrawing
    /\ strokes = <<Stroke(<<Point(R(0), R(0)), Point(R(1), R(1))>>)>>
    /\ Lookup(fontMap, char).strokes = strokes

-----------------------------------------------------------------------------
(* Exports and edits of the font map side by side: src/App.tsx 129-261             *)
(*                                                                               *)
(* A handler reads the fontMap of the render it was created in; setFontMap gives   *)
(* React an update that is applied to the state after the handler has returned.   *)
(* While zip.generateAsync is pending the timer of confirmReset, a save and a      *)
(* centering may run.                                                            *)

\* performCentering(targetChar)   (App.tsx 153-165)
performCentering(targetChar) ==
    /\ pc \in {"idle", "zipping"}
    /\ HasKey(fontMap, targetChar)
    /\ Len(Lookup(fontMap, targetChar).strokes) > 0
    /\ fontMap' = [i \in 1 .. Len(fontMap) |->
                      IF fontMap[i].char = targetChar
                      THEN [fontMap[i] EXCEPT !.strokes =
                               centerStrokes(fontMap[i].strokes, fontMap[i].canvasWidth,
                                             fontMap[i].canvasHeight, targetChar)]
                      ELSE fontMap[i]]
    /\ UNCHANGED <<out, call, pc, strokes, char, avgScale, smoothed, norm, outlinePoints,
                   fontName, files, strokeShapes, united, unifiedPath, isDrawing,
                   currentStroke>>

SnapshotDrawings == {Tap, Diag}

InitSnapshot ==
    /\ fontMap \in {<<>>, <<CharData("A", Diag)>>}
    /\ out = NoOut
    /\ call = NoCall
    /\ pc = "idle"
    /\ strokes = NoStrokes
    /\ char = "A"
    /\ avgScale = R(1)
    /\ smoothed = NoStrokes
    /\ norm = NoNorm
    /\ outlinePoints = NoRing
    /\ fontName = <<>>
    /\ files = <<>>
    /\ strokeShapes = <<>>
    /\ united = NoUnion
    /\ unifiedPath = NoUnion
    /\ isDrawing = FALSE
    /\ currentStroke = <<>>

NextSnapshot ==
    \/ \E d \in SnapshotDrawings : handleSaveStrokes("A", d)
    \/ confirmReset
    \/ performCentering("A")
    \/ handleExport
    \/ handleExportFamily
    \/ zipResolved
    \/ closeExportModal

SpecSnapshot == InitSnapshot /\ [][NextSnapshot]_vars

-----------------------------------------------------------------------------
(* C28 *)

\* what the generator gives for the export in call from the font map fm
GeneratedFrom(fm) ==
    IF call.fn = "handleExport"
    THEN generateFontOf(call.src, fm, 0, Regular, call.fail)
    ELSE generateFontFamilyZipOf(call.src, fm, 0, call.fail)

\* the fonts in the downloaded file are the fonts generated from fm
DownloadedFrom(fm) ==
    /\ Len(files) = 1
    /\ Len(files[1].entries) = Len(GeneratedFrom(fm).fonts)
    /\ \A i \in 1 .. Len(files[1].entries) :
          files[1].entries[i].font = GeneratedFrom(fm).fonts[i]

-----------------------------------------------------------------------------
(* normalizeStrokes on a drawing and on the same drawing moved on the canvas       *)

\* the points of the drawings moved: three that are not on one line
ShiftPointSet == {Point(R(0), R(0)), Point(R(6), R(11)), Point(R(3), R(4))}

RECURSIVE ShiftLists(_, _)
ShiftLists(ns, np) ==
    IF ns = 0 \/ np = 0 THEN {<<>>}
    ELSE {<<>>} \cup
         UNION {{<<Stroke(s)>> \o rest :
                    s \in SeqsOfLen(ShiftPointSet, j), rest \in ShiftLists(ns - 1, np - j)} :
                j \in 1 .. np}

\* the moves: to the left, by halves, and far across the canvas
Shifts == {<<R(-3), R(0)>>, <<Rat(1, 2), Rat(7, 2)>>, <<R(150), R(-150)>>}

\* every point moved by (dx, dy), as the map of centerStrokes moves it
translate(ss, dx, dy) ==
    [k \in 1 .. Len(ss) |->
        [ss[k] EXCEPT !.points =
            [i \in 1 .. Len(ss[k].points) |->
                Point(RAdd(ss[k].points[i].x, dx), RAdd(ss[k].points[i].y, dy))]]]

InitShift ==
    /\ strokes \in ShiftLists(MaxStrokes, MaxPts) \cup EmptyStrokeLists(MaxStrokes)
    /\ char = "A"
    /\ avgScale = R(1)
    /\ norm = NoNorm
    /\ pc = "start"
    /\ smoothed = NoStrokes
    /\ fontMap = <<>>
    /\ out = NoOut
    /\ call = NoCall
    /\ outlinePoints = NoRing
    /\ fontName = <<>>
    /\ files = <<>>
    /\ strokeShapes = <<>>
    /\ united = NoUnion
    /\ unifiedPath = NoUnion
    /\ isDrawing = FALSE
    /\ currentStroke = <<>>

\* normalizeStrokes on the drawing moved by one of the moves
CallNormalizeShifted ==
    /\ pc = "normalized"
    /\ \E t \in Shifts :
          /\ strokes' = translate(strokes, t[1], t[2])
          /\ norm' = normalizeStrokes(translate(strokes, t[1], t[2]), char, avgScale)
    /\ pc' = "shifted"
    /\ UNCHANGED <<fontMap, out, call, char, avgScale, smoothed, outlinePoints, fontName,
                   files, strokeShapes, united, unifiedPath, isDrawing, currentStroke>>

\* normalizeStrokes on the drawing as centerAllGlyphs stores it before an export
CallNormalizeCentered ==
    /\ pc = "normalized"
    /\ strokes' = centerStrokes(strokes, 300, 300, char)
    /\ norm' = normalizeStrokes(centerStrokes(strokes, 300, 300, char), char, avgScale)
    /\ pc' = "centered"
    /\ UNCHANGED <<fontMap, out, call, char, avgScale, smoothed, outlinePoints, fontName,
                   files, strokeShapes, united, unifiedPath, isDrawing, currentStroke>>

NextShift == CallNormalizeStrokes \/ CallNormalizeShifted \/ CallNormalizeCentered

SpecShift == InitShift /\ [][NextShift]_vars

-----------------------------------------------------------------------------
(* C29 *)

\* C29: normalizeStrokes is translation-invariant: the drawing moved by (dx, dy), and
\* the drawing centred on its canvas, give the same stroke coordinates and the same
\* advance width as the drawing where it was drawn
C29_TranslationInvariant ==
    [][(pc = "normalized" /\ pc' \in {"shifted", "centered"}) => norm' = norm]_vars

\* a two-stroke "g" centred on the lower target of a descender: the strokes have moved
C29_Witness ==
    /\ pc = "centered"
    /\ char = "g"
    /\ Len(strokes) = 2
    /\ strokes[1].points = <<Point(R(147), Rat(361, 2)), Point(R(153), Rat(383, 2))>>
    /\ strokes[2].points = <<Point(R(150), Rat(369, 2))>>
    /\ norm.advanceWidth # R(0)

-----------------------------------------------------------------------------
(* The export that hands the letter spacing of the preview to generateFont:        *)
(* src/unnamed/part_006 135-141, with the control of PreviewArea.tsx 160-168      *)

\* values of the control (min -50, max 200, step 5; a typed number is clamped)
SpacingValues == {-50, -45, -40, -15, -10, -5, 0, 200}

InitSpacing ==
    /\ fontMap = <<>>
    /\ out = NoOut
    /\ call = NoCall
    /\ pc = "idle"
    /\ strokes = NoStrokes
    /\ char = "A"
    /\ avgScale = R(1)
    /\ smoothed = NoStrokes
    /\ norm = NoNorm
    /\ outlinePoints = NoRing
    /\ fontName = <<>>
    /\ files = <<>>
    /\ strokeShapes = <<>>
    /\ united = NoUnion
    /\ unifiedPath = NoUnion
    /\ isDrawing = FALSE
    /\ currentStroke = <<>>

\* handleExport: generateFont(safeName, fontMap, letterSpacing)
handleExportSpaced ==
    /\ pc = "idle"
    /\ \E ls \in SpacingValues, src \in Sources :
          /\ out' = generateFontOf(src, fontMap, ls, Regular, NoFail)
          /\ call' = [fn |-> "handleExport", src |-> src, letterSpacing |-> ls,
                      options |-> Regular, fail |-> NoFail]
    /\ fontMap' = centerAllGlyphs(fontMap)
    /\ pc' = "returned"
    /\ UNCHANGED <<strokes, char, avgScale, smoothed, norm, outlinePoints, fontName, files,
                   strokeShapes, united, unifiedPath, isDrawing, currentStroke>>

NextSpacing ==
    \/ \E c \in FontChars, d \in FontDrawings : handleSaveStrokes(c, d)
    \/ handleExportSpaced
    \/ downloadFile

SpecSpacing == InitSpacing /\ [][NextSpacing]_vars

-----------------------------------------------------------------------------
(* C30 *)

\* C30 as stated: every glyph of a generated font, space included, has an advance
\* width of 0 or more, for every letter spacing of the control and every drawing
C30_AsStated ==
    (pc = "returned" /\ out.status = "ok")
        => \A k \in 1 .. Len(GlyphList) : RLe(R(0), GlyphList[k].advanceWidth)

\* a tap drawn for "A" and the spacing -50: space is 400 - 500 wide, "A" 100 - 500
C30_Failing ==
    /\ pc = "returned"
    /\ call.src = "svgHelpers"
    /\ call.letterSpacing = -50
    /\ Len(GlyphList) = 3
    /\ GlyphList[2].name = "space"
    /\ GlyphList[2].advanceWidth = R(-100)
    /\ GlyphList[3].name = "A"
    /\ GlyphList[3].advanceWidth = R(-400)

====
